---- MODULE Spec2Model ----
(***************************************************************************)
(* Model of the anomaly-scoring core of the high-risk-IP detection jobs:   *)
(* the score calibrators (isolation_forest_to_probability and the two      *)
(* AnomalyDetector._convert_scores_to_probabilities variants) and the      *)
(* AnomalyDetector.detect_anomalies handlers with their evidence           *)
(* explanations, and FeatureEngineer.prepare_features in front of them as  *)
(* ETLPipeline.transform calls it.                                         *)
(*                                                                         *)
(* Numbers.  Floats are modelled in fixed point.  A probability p is the   *)
(* integer p * Scale; a feature value, mean, standard deviation or         *)
(* deviation x is the integer x * EvScale, so that the source's epsilon    *)
(* 1e-5 is one unit.  Every division rounds toward minus infinity where    *)
(* the float rounds to nearest.  NaN is a marker outside every range; a    *)
(* comparison with NaN is false, as in IEEE arithmetic.                    *)
(***************************************************************************)
EXTENDS Integers, Sequences, FiniteSets, TLC

VARIABLES
    cal_scores,      \* the score sequence handed to a calibrator
    cal_method,      \* the calibrator that ran ("" before the call)
    cal_container,   \* "Series" or "ndarray": the type of the argument
    cal_probs,       \* the returned probabilities
    cal_pc,          \* "ready" before the call, "done" after it
    features_df,     \* the table handed to detect_anomalies
    config,          \* the raw configuration dictionary
    results_df,      \* detect_anomalies' working table
    normal_mean,     \* the evidence baseline: per-feature mean
    normal_std,      \* the evidence baseline: per-feature std + 1e-5
    full_data,       \* the full-data report
    final_anomalies, \* the anomalies-only report
    error,           \* "none" or the kind of the error raised
    pc,              \* "raw", "ready", then which handler ran ("full", "v1", ...)
    raw_df,          \* the raw table the extractor handed to transform
    columns_to_keep, \* FeatureEngineer.columns_to_keep (columns_to_stay)
    df_index,        \* the row labels (pandas index) of features_df
    fit_calls,       \* calls of IsolationForest.fit_predict so far
    cause,           \* the chained original failure (__cause__), or "none"
    fit_memo,        \* what the seeded library returned for which input
    prev_run,        \* the reports of the run before the latest one
    end_hour,        \* generate_list_of_hour's end_hour argument
    lookback_period, \* generate_list_of_hour's lookback_period argument
    list_of_hour,    \* the hour strings generate_list_of_hour returned
    hour_pc,         \* "ready" before generate_list_of_hour, "done" after
    client_list,     \* the clients handed to _filter_existing_clients
    date_suffixes,   \* the hours handed to _filter_existing_clients
    tables,          \* what get_table does for each client and hour
    active_clients,  \* the clients _filter_existing_clients returned
    lookups,         \* the get_table calls made, in order
    fetch_pc,        \* "ready" before get_active_clients, "done" after
    start_date,      \* run's start_date argument (NoDate when omitted)
    context,         \* the context _prepare_context built (NoContext before)
    phases,          \* the phases of run started so far, in order
    sinks,           \* the sink writes in place, in order
    results,         \* what run returned (NoResults before, or on a raise)
    run_error,       \* the exception run raised (NoError when none)
    run_pc           \* where ETLPipeline.run stands

cal_vars == <<cal_scores, cal_method, cal_container, cal_probs, cal_pc>>
det_vars == <<features_df, config, results_df, normal_mean, normal_std,
              full_data, final_anomalies, error, pc>>
pipe_vars == <<raw_df, columns_to_keep, df_index>>
run_vars == <<fit_calls, cause, fit_memo, prev_run>>
hour_vars == <<end_hour, lookback_period, list_of_hour, hour_pc>>
fetch_vars == <<client_list, date_suffixes, tables, active_clients, lookups,
                fetch_pc>>
etl_vars == <<start_date, context, phases, sinks, results, run_error, run_pc>>
ops_vars == <<hour_vars, fetch_vars, etl_vars>>
vars == <<cal_vars, det_vars, pipe_vars, run_vars, ops_vars>>

(***************************************************************************)
(* Bounds and units                                                        *)
(***************************************************************************)
MaxLen == 4                     \* longest score sequence calibrated
ScoreVals == {-3, -2, -1, 0, 1} \* decision_function values, in score quanta
Scale == 10 * 10 * 10           \* fixed-point units per 1.0 (probabilities)
Half == Scale \div 2
NaN == 0 - Scale                \* marker for IEEE NaN

IsNaN(x) == x = NaN
\* IEEE comparisons: false as soon as one side is NaN
Geq(a, b) == ~IsNaN(a) /\ ~IsNaN(b) /\ a >= b
InRange(x, lo, hi) == ~IsNaN(x) /\ lo <= x /\ x <= hi

(***************************************************************************)
(* Sequence helpers (numpy / pandas reductions)                            *)
(***************************************************************************)
Range(s) == {s[i] : i \in DOMAIN s}
SeqMin(s) == CHOOSE v \in Range(s) : \A w \in Range(s) : v <= w
SeqMax(s) == CHOOSE v \in Range(s) : \A w \in Range(s) : v >= w

RECURSIVE SeqSum(_)
SeqSum(s) == IF s = <<>> THEN 0 ELSE Head(s) + SeqSum(Tail(s))

\* the sequence s with every element computed (TLC otherwise re-evaluates a
\* function's body at each application)
Strict(s) == s \o <<>>

Negate(s) == Strict([i \in DOMAIN s |-> 0 - s[i]])
SqSeq(s) == [i \in DOMAIN s |-> s[i] * s[i]]

\* k-th smallest element (1-based) of a non-empty sequence
Sorted(s) ==
    Strict([k \in DOMAIN s |->
        CHOOSE v \in Range(s) :
            /\ Cardinality({i \in DOMAIN s : s[i] < v}) < k
            /\ k <= Cardinality({i \in DOMAIN s : s[i] <= v})])

\* floor of the square root, by bisection on lo..hi with lo^2 <= v < (hi+1)^2
RECURSIVE IsqrtIn(_, _, _)
IsqrtIn(v, lo, hi) ==
    IF lo >= hi THEN lo
    ELSE LET mid == (lo + hi + 1) \div 2
         IN  IF mid * mid <= v THEN IsqrtIn(v, mid, hi)
                               ELSE IsqrtIn(v, lo, mid - 1)
Isqrt(v) == IsqrtIn(v, 0, 46340)

\* e^k for k = 0..6, in units of 1/Scale
EPow == <<1000, 2718, 7389, 20086, 54598, 148413, 403429>>

\* e^(r/Scale) for 0 <= r < Scale: Taylor polynomial of degree 6
ExpFrac(r) ==
    LET t1 == r
        t2 == (t1 * r) \div (2 * Scale)
        t3 == (t2 * r) \div (3 * Scale)
        t4 == (t3 * r) \div (4 * Scale)
        t5 == (t4 * r) \div (5 * Scale)
        t6 == (t5 * r) \div (6 * Scale)
    IN  Scale + t1 + t2 + t3 + t4 + t5 + t6

\* np.exp(x / Scale) * Scale for x >= 0; arguments past the table saturate
Exp(x) ==
    LET q == x \div Scale
        r == x % Scale
    IN  IF q >= Len(EPow) THEN EPow[Len(EPow)] * 3
        ELSE (EPow[q + 1] * ExpFrac(r)) \div Scale

\* 1 / (1 + np.exp(a / Scale)), in units of 1/Scale
Logistic(a) ==
    IF a >= 0 THEN (Scale * Scale) \div (Scale + Exp(a))
    ELSE (Scale * Scale) \div (Scale + (Scale * Scale) \div Exp(0 - a))

(***************************************************************************)
(* numpy / scipy / pandas statistics used by the calibrators               *)
(***************************************************************************)
\* 4 * np.percentile(s, 25 * j), j in 1..3 (linear interpolation between the
\* two closest ranks); exact, because the fraction is a multiple of 1/4
Percentile4(s, j) ==
    LET n == Len(s)
        srt == Sorted(s)
        k == ((n - 1) * j) \div 4
        r == ((n - 1) * j) % 4
    IN  IF r = 0 THEN 4 * srt[k + 1]
        ELSE 4 * srt[k + 1] + r * (srt[k + 2] - srt[k + 1])

\* 2 * np.median(s)
Median2(s) ==
    LET n == Len(s)
        srt == Sorted(s)
    IN  IF n % 2 = 1 THEN 2 * srt[(n + 1) \div 2]
        ELSE srt[n \div 2] + srt[n \div 2 + 1]

\* 2 * scipy.stats.rankdata(s, method='average')[i]
Rank2(s, i) ==
    2 * Cardinality({j \in DOMAIN s : s[j] < s[i]})
      + Cardinality({j \in DOMAIN s : s[j] = s[i]}) + 1

\* s.std() in units of 1/Scale per score quantum.  pandas.Series.std has
\* ddof = 1 and numpy.ndarray.std has ddof = 0; a single element under
\* ddof = 1 is 0/0 = NaN.
StdScaled(s, ddof) ==
    LET n == Len(s)
        num == n * SeqSum(SqSeq(s)) - SeqSum(s) * SeqSum(s)
        den == n * (n - ddof)
    IN  IF den = 0 THEN NaN
        ELSE Isqrt((num * Scale * Scale) \div den)

Ddof(container) == IF container = "Series" THEN 1 ELSE 0

(***************************************************************************)
(* isolation_forest_to_probability: the five calibration strategies        *)
(***************************************************************************)
P095 == 950
P080 == 800
P070 == 700
P060 == 600
ThreeQuarters == (3 * Scale) \div 4

Constant(scores, c) == [i \in DOMAIN scores |-> c]

\* severity_ranking without the inversion of the scores
severity_ranking_not_inverted(anomaly_scores) ==
    LET min_score == SeqMin(anomaly_scores)
        max_score == SeqMax(anomaly_scores)
    IN  IF anomaly_scores = <<>> THEN <<>>
        ELSE IF max_score = min_score
        THEN Constant(anomaly_scores, ThreeQuarters)
        ELSE [i \in DOMAIN anomaly_scores |->
                LET prob_0_to_1 == ((anomaly_scores[i] - min_score) * Scale)
                                       \div (max_score - min_score)
                IN  Half + prob_0_to_1 \div 2]

\* severity_ranking without the remapping of [0, 1] to [0.5, 1]
severity_ranking_unit_range(anomaly_scores) ==
    LET inverted_scores == Negate(anomaly_scores)
        min_score == SeqMin(inverted_scores)
        max_score == SeqMax(inverted_scores)
    IN  IF anomaly_scores = <<>> THEN <<>>
        ELSE IF max_score = min_score
        THEN Constant(anomaly_scores, ThreeQuarters)
        ELSE [i \in DOMAIN anomaly_scores |->
                ((inverted_scores[i] - min_score) * Scale)
                    \div (max_score - min_score)]

severity_ranking(anomaly_scores) ==
    LET inverted_scores == Negate(anomaly_scores)
        min_score == SeqMin(inverted_scores)
        max_score == SeqMax(inverted_scores)
    IN  \* of no score, min() and max() are NaN, NaN == NaN is false and the
        \* arithmetic returns the empty sequence
        IF anomaly_scores = <<>> THEN <<>>
        ELSE IF max_score = min_score
        THEN Constant(anomaly_scores, ThreeQuarters)
        ELSE [i \in DOMAIN anomaly_scores |->
                LET prob_0_to_1 == ((inverted_scores[i] - min_score) * Scale)
                                       \div (max_score - min_score)
                IN  Half + prob_0_to_1 \div 2]

percentile_within_anomalies(anomaly_scores) ==
    LET inverted_scores == Negate(anomaly_scores)
        n == Len(anomaly_scores)
    IN  [i \in DOMAIN anomaly_scores |->
            \* (ranks - 1) / (len(ranks) - 1): 0/0 when there is one score
            IF n - 1 = 0 THEN NaN
            ELSE LET prob_0_to_1 == ((Rank2(inverted_scores, i) - 2) * Scale)
                                        \div (2 * (n - 1))
                 IN  Half + prob_0_to_1 \div 2]

exponential_severity(anomaly_scores) ==
    LET inverted_scores == Negate(anomaly_scores)
        min_score == SeqMin(inverted_scores)
        max_score == SeqMax(inverted_scores)
    IN  IF max_score = min_score
        THEN Constant(anomaly_scores, ThreeQuarters)
        ELSE [i \in DOMAIN anomaly_scores |->
                LET normalized == ((inverted_scores[i] - min_score) * Scale)
                                      \div (max_score - min_score)
                    prob_0_to_1 == ((Exp(2 * normalized) - Scale) * Scale)
                                       \div (Exp(2 * Scale) - Scale)
                IN  Half + prob_0_to_1 \div 2]

sigmoid_centered(anomaly_scores, ddof) ==
    LET inverted_scores == Negate(anomaly_scores)
        median2 == Median2(inverted_scores)
        std_score == StdScaled(inverted_scores, ddof)
    IN  IF ~IsNaN(std_score) /\ std_score = 0
        THEN Constant(anomaly_scores, ThreeQuarters)
        ELSE [i \in DOMAIN anomaly_scores |->
                IF IsNaN(std_score) THEN NaN
                ELSE LET normalized ==
                             ((2 * inverted_scores[i] - median2) * Scale * Scale)
                                 \div (2 * std_score)
                         prob_0_to_1 == Logistic(0 - 2 * normalized)
                     IN  Half + prob_0_to_1 \div 2]

\* prob[mask] = value
MaskAssign(prob, mask, value) ==
    [i \in DOMAIN prob |-> IF mask[i] THEN value ELSE prob[i]]

\* threshold_based with > in place of >= at the 75th percentile
threshold_based_strict(anomaly_scores) ==
    LET inverted_scores == Negate(anomaly_scores)
        inv4 == [i \in DOMAIN inverted_scores |-> 4 * inverted_scores[i]]
        p75 == Percentile4(inverted_scores, 3)
        p50 == Percentile4(inverted_scores, 2)
        p25 == Percentile4(inverted_scores, 1)
        prob0 == Constant(anomaly_scores, 0)
        prob1 == MaskAssign(prob0,
                     [i \in DOMAIN inv4 |-> inv4[i] > p75], P095)
        prob2 == MaskAssign(prob1,
                     [i \in DOMAIN inv4 |-> inv4[i] >= p50 /\ inv4[i] < p75], P080)
        prob3 == MaskAssign(prob2,
                     [i \in DOMAIN inv4 |-> inv4[i] >= p25 /\ inv4[i] < p50], P070)
    IN  MaskAssign(prob3, [i \in DOMAIN inv4 |-> inv4[i] < p25], P060)

threshold_based(anomaly_scores) ==
    LET inverted_scores == Negate(anomaly_scores)
        inv4 == [i \in DOMAIN inverted_scores |-> 4 * inverted_scores[i]]
        p75 == Percentile4(inverted_scores, 3)
        p50 == Percentile4(inverted_scores, 2)
        p25 == Percentile4(inverted_scores, 1)
        prob0 == Constant(anomaly_scores, 0)
        prob1 == MaskAssign(prob0,
                     [i \in DOMAIN inv4 |-> inv4[i] >= p75], P095)
        prob2 == MaskAssign(prob1,
                     [i \in DOMAIN inv4 |-> inv4[i] >= p50 /\ inv4[i] < p75], P080)
        prob3 == MaskAssign(prob2,
                     [i \in DOMAIN inv4 |-> inv4[i] >= p25 /\ inv4[i] < p50], P070)
    IN  MaskAssign(prob3, [i \in DOMAIN inv4 |-> inv4[i] < p25], P060)

Methods == {"severity_ranking", "percentile_within_anomalies",
            "exponential_severity", "sigmoid_centered", "threshold_based"}

isolation_forest_to_probability(anomaly_scores, method, container) ==
    CASE method = "severity_ranking" -> severity_ranking(anomaly_scores)
      [] method = "percentile_within_anomalies" ->
             percentile_within_anomalies(anomaly_scores)
      [] method = "exponential_severity" -> exponential_severity(anomaly_scores)
      [] method = "sigmoid_centered" ->
             sigmoid_centered(anomaly_scores, Ddof(container))
      [] method = "threshold_based" -> threshold_based(anomaly_scores)

(***************************************************************************)
(* AnomalyDetector._convert_scores_to_probabilities                        *)
(***************************************************************************)
\* the anomalies-only variant with the all-rows variant's fallback constant
convert_scores_to_probabilities_half(anomaly_scores) ==
    LET inverted_scores == Negate(anomaly_scores)
        min_score == SeqMin(inverted_scores)
        max_score == SeqMax(inverted_scores)
    IN  IF max_score = min_score
        THEN Constant(anomaly_scores, Half)
        ELSE [i \in DOMAIN anomaly_scores |->
                LET prob_0_to_1 == ((inverted_scores[i] - min_score) * Scale)
                                       \div (max_score - min_score)
                IN  Half + prob_0_to_1 \div 2]

\* transform/anomaly_detector.py: anomaly rows only, [0.5, 1]
convert_scores_to_probabilities(anomaly_scores) ==
    LET inverted_scores == Negate(anomaly_scores)
        min_score == SeqMin(inverted_scores)
        max_score == SeqMax(inverted_scores)
    IN  IF max_score = min_score
        THEN Constant(anomaly_scores, ThreeQuarters)
        ELSE [i \in DOMAIN anomaly_scores |->
                LET prob_0_to_1 == ((inverted_scores[i] - min_score) * Scale)
                                       \div (max_score - min_score)
                IN  Half + prob_0_to_1 \div 2]

\* the np.where condition with <= in place of <
IsNotPositive(score) == score <= 0

\* the np.where condition of the all-rows variant
IsNegative(score) == score < 0

\* transform/.ipynb_checkpoints/anomaly_detector-checkpoint.py: all rows,
\* [0.5, 1] for negative scores and [0, 0.5] for the others
convert_scores_to_probabilities_full(anomaly_scores) ==
    LET inverted_scores == Negate(anomaly_scores)
        min_score == SeqMin(inverted_scores)
        max_score == SeqMax(inverted_scores)
    IN  IF max_score = min_score
        THEN Constant(anomaly_scores, Half)
        ELSE [i \in DOMAIN anomaly_scores |->
                LET prob_0_to_1 == ((inverted_scores[i] - min_score) * Scale)
                                       \div (max_score - min_score)
                IN  IF IsNegative(anomaly_scores[i])
                    THEN Half + prob_0_to_1 \div 2
                    ELSE prob_0_to_1 \div 2]

(***************************************************************************)
(* Tables (pandas DataFrame): a column list and a sequence of rows, each   *)
(* row a function from the column names to the cell values                 *)
(***************************************************************************)
MaxRows == 2                    \* most rows of a feature table
MaxFeat == 4                    \* most feature columns of a feature table
EvScale == 10 * 10 * 10 * 10 * 10   \* fixed-point units per 1.0 (features)
FeatStep == EvScale \div 20     \* feature values are 0, 0.05 and 0.1
DetScoreVals == {-2, -1, 0, 1}  \* decision_function values of the fitted model
TopKChoices == {1, 3}           \* values a configuration may give top_k
Null == 0 - 1                   \* a missing cell (None / NaN in the frame)

Table(columns, rows) == [columns |-> columns, rows |-> Strict(rows)]
NoTable == Table(<<>>, <<>>)

\* pd.DataFrame(columns=cols)
EmptyFrame(cols) == Table(cols, <<>>)

\* df[cols]
Project(df, cols) ==
    Table(cols, [i \in DOMAIN df.rows |->
                    [c \in Range(cols) |-> df.rows[i][c]]])

\* df[name] = values (a new column at the end)
WithColumn(df, name, values) ==
    Table(Append(df.columns, name),
          [i \in DOMAIN df.rows |-> df.rows[i] @@ (name :> values[i])])

\* the frame without the filter
AllRowsKept(df) == df

\* df[df['is_anomaly']]
OnlyAnomalies(df) == Table(df.columns, SelectSeq(df.rows, LAMBDA r : r["is_anomaly"]))

Column(df, name) == Strict([i \in DOMAIN df.rows |-> df.rows[i][name]])

FeatName(k) == <<"f1", "f2", "f3", "f4", "f5", "f6">>[k]
IpName(i) == <<"ip1", "ip2", "ip3", "ip4", "ip5">>[i]

\* feature vectors of nf columns: all 0; all 0.1; the first two 0.1 and the
\* rest 0; 0.1, 0.05 and the rest 0
RowShapes(nf) ==
    {[k \in 1..nf |-> 0],
     [k \in 1..nf |-> 2 * FeatStep],
     [k \in 1..nf |-> IF k <= 2 THEN 2 * FeatStep ELSE 0],
     [k \in 1..nf |-> IF k = 1 THEN 2 * FeatStep ELSE IF k = 2 THEN FeatStep ELSE 0]}

\* the feature tables prepare_features can hand over: an IP column first,
\* nf feature columns, n >= 1 rows, no missing cell
FeatureTable(nf, vecs) ==
    Table(<<"IP">> \o [k \in 1..nf |-> FeatName(k)],
          [i \in DOMAIN vecs |->
              [c \in {"IP"} \cup {FeatName(k) : k \in 1..nf} |->
                  IF c = "IP" THEN IpName(i)
                  ELSE vecs[i][CHOOSE k \in 1..nf : FeatName(k) = c]]])

FeatureTables ==
    UNION {{FeatureTable(nf, vecs) :
               vecs \in UNION {[1..n -> RowShapes(nf)] : n \in 1..MaxRows}} :
           nf \in 0..MaxFeat}

(***************************************************************************)
(* FeatureEngineer.prepare_features: column selection and null dropping    *)
(***************************************************************************)
MaxRawRows == 3                 \* most rows of a raw table

RawColumns == <<"IP", "f1", "f2">>

\* the rows a raw table may hold at position i: the IP is the row's own or
\* that of the first row again, f1 is 0.01 * i or missing, f2 is 0 or missing
RawRows(i) ==
    {[c \in Range(RawColumns) |->
         IF c = "IP" THEN ip ELSE IF c = "f1" THEN f1 ELSE f2] :
     ip \in {IpName(i), IpName(1)},
     f1 \in {i * (FeatStep \div 5), Null},
     f2 \in {0, Null}}

\* BigQueryExtractor.extract_features returns the query's result with the ip
\* column renamed to IP and checks nothing about it (the validation call is
\* commented out): any number of rows, missing cells, repeated IPs
RawTables ==
    UNION {{Table(RawColumns, rows) :
               rows \in {r \in [1..n -> UNION {RawRows(i) : i \in 1..n}] :
                            \A i \in 1..n : r[i] \in RawRows(i)}} :
           n \in 0..MaxRawRows}

\* the configured selections (feature_engineering.columns_to_stay): none, a
\* selection with and one without IP, one that names an absent column and
\* reorders, one with the IP alone, one that names absent columns only
ColumnSelections ==
    {<<>>, <<"IP", "f1">>, <<"f1">>, <<"f2", "zz", "IP">>, <<"IP">>, <<"zz">>}

\* the selection with the table's column order instead of the selection's
AvailableColumnsTableOrder(columns_to_stay, df) ==
    SelectSeq(df.columns, LAMBDA col : col \in Range(columns_to_stay))

\* [col for col in self.columns_to_keep if col in df.columns]
AvailableColumns(columns_to_stay, df) ==
    SelectSeq(columns_to_stay, LAMBDA col : col \in Range(df.columns))

\* [col for col in self.columns_to_keep if col not in df.columns]
MissingColumns(columns_to_stay, df) ==
    SelectSeq(columns_to_stay, LAMBDA col : col \notin Range(df.columns))

\* a missing cell of row r (isna); the raw tables' IP cells are strings and
\* never missing
IsNull(r, c) == c # "IP" /\ r[c] = Null

RECURSIVE Ascending(_)
\* the members of a set of positions in ascending order
Ascending(S) ==
    IF S = {} THEN <<>>
    ELSE LET m == CHOOSE x \in S : \A y \in S : x <= y
         IN  <<m>> \o Ascending(S \ {m})

\* dropna(how='all'): only the rows whose every cell is missing are dropped
NotAllNullRows(df) ==
    Ascending({i \in DOMAIN df.rows :
                  df.columns = <<>>
                  \/ \E c \in Range(df.columns) : ~IsNull(df.rows[i], c)})

\* df.dropna(): the positions of the rows without a missing cell, in order
NotNullRows(df) ==
    Ascending({i \in DOMAIN df.rows :
                  \A c \in Range(df.columns) : ~IsNull(df.rows[i], c)})

\* the rows at the positions `keep`, in that order
TakeRows(df, keep) ==
    Table(df.columns, [p \in DOMAIN keep |-> df.rows[keep[p]]])

\* the emptiness test left out
NoDataRemainingNever(df_clean) == FALSE

\* final_rows == 0
NoDataRemaining(df_clean) == Len(df_clean.rows) = 0

\* prepare_features as a function: the error raised ("none" when it returns),
\* the table returned and its row labels.  Both raise statements sit inside
\* the try block, so the handler wraps them again: the caller always sees a
\* TransformationError whose cause is the inner TransformationError.
prepare_features(df, columns_to_stay) ==
    LET available_columns == AvailableColumns(columns_to_stay, df)
        selected == IF columns_to_stay # <<>>
                    THEN Project(df, available_columns)
                    ELSE df
        keep == NotNullRows(selected)
        df_clean == TakeRows(selected, keep)
    IN  IF columns_to_stay # <<>> /\ available_columns = <<>>
        THEN [error |-> "TransformationError",
              cause |-> "TransformationError: No required columns found in data",
              df |-> NoTable, index |-> <<>>]
        ELSE IF NoDataRemaining(df_clean)
        THEN [error |-> "TransformationError",
              cause |-> "TransformationError: No data remaining after cleaning",
              df |-> NoTable, index |-> <<>>]
        ELSE [error |-> "none", cause |-> "none", df |-> df_clean, index |-> keep]

(***************************************************************************)
(* AnomalyDetector: construction, feature preparation, evidence            *)
(***************************************************************************)
\* AnomalyDetector.__init__: the three settings the detector reads
AnomalyDetectorInit(cfg) ==
    [contamination |-> cfg.model.contamination,
     random_state |-> cfg.model.random_state,
     n_jobs |-> cfg.model.n_jobs]

\* [col for col in df.columns if col != 'IP']
FeatureCols(df) == SelectSeq(df.columns, LAMBDA c : c # "IP")

\* fillna(0)
FillNa0(v) == IF v = Null THEN 0 ELSE v

\* _prepare_features: the matrix X, one row per table row, one entry per
\* feature column
PrepareX(df) ==
    LET feature_cols == FeatureCols(df)
    IN  Strict([i \in DOMAIN df.rows |->
            Strict([k \in DOMAIN feature_cols |->
                       FillNa0(df.rows[i][feature_cols[k]])])])

\* IsolationForest (scikit-learn, not part of the repository): fit_predict
\* labels a row -1 exactly when its decision_function value is negative.
\* The handlers admit every score vector over DetScoreVals, also vectors the
\* library would not return for the configured contamination (such as all
\* rows negative): the handlers' own code makes no assumption about them.
FitPredict(scores) ==
    Strict([i \in DOMAIN scores |-> IF scores[i] < 0 THEN 0 - 1 ELSE 1])
AnomalyMask(labels) == Strict([i \in DOMAIN labels |-> labels[i] = 0 - 1])

RECURSIVE SetSum(_, _)
SetSum(S, f) ==
    IF S = {} THEN 0
    ELSE LET i == CHOOSE j \in S : TRUE
         IN  f[i] + SetSum(S \ {i}, f)

Abs(x) == IF x < 0 THEN 0 - x ELSE x
Eps == 1
TopN == 3

\* np.mean(data, axis=0)[k] over the rows in `rows`; the mean of no row is NaN
MeanOf(X, rows, k) ==
    IF rows = {} THEN NaN
    ELSE SetSum(rows, [i \in rows |-> X[i][k]]) \div Cardinality(rows)

\* np.std(data, axis=0)[k] (ddof = 0) over the rows in `rows`
StdOf(X, rows, k) ==
    IF rows = {} THEN NaN
    ELSE LET n == Cardinality(rows)
             s1 == SetSum(rows, [i \in rows |-> X[i][k]])
             s2 == SetSum(rows, [i \in rows |-> X[i][k] * X[i][k]])
         IN  Isqrt(n * s2 - s1 * s1) \div n

\* the baseline rows without the fallback to all rows
BaselineRowsNoFallback(anomaly_mask) ==
    {i \in DOMAIN anomaly_mask : ~anomaly_mask[i]}

\* the rows the baseline is computed over: X[~anomaly_mask], or all of X
\* when that is empty
BaselineRows(anomaly_mask) ==
    LET normal_data == {i \in DOMAIN anomaly_mask : ~anomaly_mask[i]}
    IN  IF normal_data = {} THEN DOMAIN anomaly_mask ELSE normal_data

NormalMean(X, anomaly_mask, nf) ==
    Strict([k \in 1..nf |-> MeanOf(X, BaselineRows(anomaly_mask), k)])

NormalStd(X, anomaly_mask, nf) ==
    Strict([k \in 1..nf |->
        LET s == StdOf(X, BaselineRows(anomaly_mask), k)
        IN  IF IsNaN(s) THEN NaN ELSE s + Eps])

\* np.abs((actual_values - normal_mean) / normal_std)
Deviations(actual_values, mean, std) ==
    Strict([k \in DOMAIN actual_values |->
        IF IsNaN(mean[k]) \/ IsNaN(std[k]) THEN NaN
        ELSE (Abs(actual_values[k] - mean[k]) * EvScale) \div std[k]])

\* np.argsort(d): indices in ascending order of d; numpy sorts arrays this
\* short by insertion, so equal values keep their index order
Argsort(d) ==
    LET pos(k) == 1 + Cardinality({j \in DOMAIN d :
                         d[j] < d[k] \/ (d[j] = d[k] /\ j < k)})
    IN  Strict([p \in DOMAIN d |-> CHOOSE k \in DOMAIN d : pos(k) = p])

\* s[-n:]
LastN(s, n) == SubSeq(s, IF Len(s) > n THEN Len(s) - n + 1 ELSE 1, Len(s))
\* s[::-1]
Reverse(s) == Strict([p \in DOMAIN s |-> s[Len(s) + 1 - p]])

\* the ranking without the [-3:] truncation
TopFeatureIndicesAll(deviations) == Reverse(Argsort(deviations))

\* np.argsort(deviations)[-3:][::-1]
TopFeatureIndices(deviations) == Reverse(LastN(Argsort(deviations), TopN))

\* f"{v:.2f}": the value in hundredths
Round2(v) == IF IsNaN(v) THEN NaN ELSE (v + EvScale \div 200) \div (EvScale \div 100)

\* the evidence of row idx in the full-data variant
EvidenceOf(X, feature_cols, anomaly_mask, mean, std, idx) ==
    LET actual_values == X[idx]
        deviations == Deviations(actual_values, mean, std)
        top_feature_indices == TopFeatureIndices(deviations)
        details == Strict([p \in DOMAIN top_feature_indices |->
                       LET feat_idx == top_feature_indices[p]
                       IN  [feat |-> feature_cols[feat_idx],
                            actual |-> Round2(actual_values[feat_idx]),
                            normal |-> Round2(mean[feat_idx]),
                            deviation |-> Round2(deviations[feat_idx]),
                            wording |-> IF anomaly_mask[idx] THEN "vs normal"
                                        ELSE "close to normal"]])
    IN  [prefix |-> IF anomaly_mask[idx] THEN "Outlier - " ELSE "Inlier - ",
         details |-> details]

Placeholder == [prefix |-> "Normal", details |-> <<>>]

\* evidence for the flagged rows only, the others keep the placeholder
AddEvidenceForAnomaliesOnly(df, X, feature_cols, anomaly_mask) ==
    LET mean == NormalMean(X, anomaly_mask, Len(feature_cols))
        std == NormalStd(X, anomaly_mask, Len(feature_cols))
        df0 == WithColumn(df, "evidence", [i \in DOMAIN df.rows |-> Placeholder])
    IN  Table(df0.columns,
              [idx \in DOMAIN df0.rows |->
                  IF anomaly_mask[idx]
                  THEN [df0.rows[idx] EXCEPT !["evidence"] =
                           EvidenceOf(X, feature_cols, anomaly_mask, mean, std, idx)]
                  ELSE df0.rows[idx]])

\* _add_evidence_explanations: every row of results_df gets its evidence
AddEvidenceExplanations(df, X, feature_cols, anomaly_mask) ==
    LET mean == NormalMean(X, anomaly_mask, Len(feature_cols))
        std == NormalStd(X, anomaly_mask, Len(feature_cols))
        df0 == WithColumn(df, "evidence", [i \in DOMAIN df.rows |-> Placeholder])
    IN  Table(df0.columns,
              [idx \in DOMAIN df0.rows |->
                  IF idx <= Len(X)
                  THEN [df0.rows[idx] EXCEPT !["evidence"] =
                           EvidenceOf(X, feature_cols, anomaly_mask, mean, std, idx)]
                  ELSE df0.rows[idx]])

\* the anomaly_reason of row idx in the anomalies-only variant
ReasonOf(X, feature_cols, mean, std, idx) ==
    LET actual_values == X[idx]
        deviations == Deviations(actual_values, mean, std)
        top_anomaly_indices == TopFeatureIndices(deviations)
    IN  [prefix |-> "",
         details |-> Strict([p \in DOMAIN top_anomaly_indices |->
                        LET feat_idx == top_anomaly_indices[p]
                        IN  [feat |-> feature_cols[feat_idx],
                             actual |-> Round2(actual_values[feat_idx]),
                             normal |-> Round2(mean[feat_idx]),
                             wording |-> "vs"]])]

\* _add_anomaly_explanations: only flagged rows get a reason; nothing is
\* computed when no row is flagged
AddAnomalyExplanations(df, X, feature_cols, anomaly_mask) ==
    LET df0 == WithColumn(df, "anomaly_reason", [i \in DOMAIN df.rows |-> Placeholder])
    IN  IF \A i \in DOMAIN anomaly_mask : ~anomaly_mask[i] THEN df0
        ELSE LET mean == NormalMean(X, anomaly_mask, Len(feature_cols))
                 std == NormalStd(X, anomaly_mask, Len(feature_cols))
             IN  Table(df0.columns,
                       [idx \in DOMAIN df0.rows |->
                           IF anomaly_mask[idx] /\ idx <= Len(df0.rows)
                           THEN [df0.rows[idx] EXCEPT !["anomaly_reason"] =
                                    ReasonOf(X, feature_cols, mean, std, idx)]
                           ELSE df0.rows[idx]])

\* GraphAnomalyDetector.detect_anomalies: the baseline is X[~anomalies] with
\* no fallback, so it is NaN when every row is flagged
GraphMean(X, anomaly_mask, nf) ==
    Strict([k \in 1..nf |->
        MeanOf(X, {i \in DOMAIN anomaly_mask : ~anomaly_mask[i]}, k)])

GraphStd(X, anomaly_mask, nf) ==
    Strict([k \in 1..nf |->
        LET s == StdOf(X, {i \in DOMAIN anomaly_mask : ~anomaly_mask[i]}, k)
        IN  IF IsNaN(s) THEN NaN ELSE s + Eps])

GraphExplanations(df, X, feature_cols, anomaly_mask) ==
    LET df0 == WithColumn(df, "anomaly_reason", [i \in DOMAIN df.rows |-> Placeholder])
    IN  IF \A i \in DOMAIN anomaly_mask : ~anomaly_mask[i] THEN df0
        ELSE LET mean == GraphMean(X, anomaly_mask, Len(feature_cols))
                 std == GraphStd(X, anomaly_mask, Len(feature_cols))
             IN  Table(df0.columns,
                       [idx \in DOMAIN df0.rows |->
                           IF anomaly_mask[idx] /\ idx <= Len(df0.rows)
                           THEN [df0.rows[idx] EXCEPT !["anomaly_reason"] =
                                    ReasonOf(X, feature_cols, mean, std, idx)]
                           ELSE df0.rows[idx]])

(***************************************************************************)
(* State machine                                                           *)
(***************************************************************************)
Containers == {"Series", "ndarray"}
ScoreSeqs == UNION {[1..n -> ScoreVals] : n \in 1..MaxLen}

Configs ==
    {[model |-> [contamination |-> "0.02", random_state |-> 42, n_jobs |-> 0 - 1],
      top_k_evidence_features |-> k] : k \in TopKChoices}
NoConfig ==
    [model |-> [contamination |-> "0.02", random_state |-> 42, n_jobs |-> 0 - 1],
     top_k_evidence_features |-> TopN]

\* nothing fitted yet, no earlier run
NoMemo == [key |-> <<>>, outcome |-> <<>>]
NoRun == [results_df |-> NoTable, full_data |-> NoTable,
          final_anomalies |-> NoTable, error |-> "none", cause |-> "none"]

\* a date string is its digits and whether it is written with dashes; an
\* exception is its type, its message (the parts it was formatted from) and
\* the exception it was raised from
NoDate == [digits |-> 0, dashed |-> FALSE]
NoContext == [start_date |-> NoDate, start_hour |-> <<0, 0>>,
              end_hour |-> <<0, 0>>, list_of_hour |-> <<>>]
NoResults == [csv_path |-> <<>>, csv_full_data_path |-> <<>>,
              bq_table |-> <<>>, bq_table_full_data |-> <<>>]
NoCause == [type |-> "none", message |-> <<>>]
NoError == [type |-> "none", message |-> <<>>, cause |-> NoCause]

HourIdle ==
    /\ end_hour = <<0, 0>>
    /\ lookback_period = 0
    /\ list_of_hour = <<>>
    /\ hour_pc = "idle"

FetchIdle ==
    /\ client_list = <<>>
    /\ date_suffixes = <<>>
    /\ tables = <<>>
    /\ active_clients = <<>>
    /\ lookups = <<>>
    /\ fetch_pc = "idle"

EtlIdle ==
    /\ start_date = NoDate
    /\ context = NoContext
    /\ phases = <<>>
    /\ sinks = <<>>
    /\ results = NoResults
    /\ run_error = NoError
    /\ run_pc = "idle"

OpsIdle == HourIdle /\ FetchIdle /\ EtlIdle

CalIdle ==
    /\ cal_scores = <<>>
    /\ cal_method = ""
    /\ cal_container = "Series"
    /\ cal_probs = <<>>
    /\ cal_pc = "idle"

DetIdle ==
    /\ features_df = NoTable
    /\ config = NoConfig
    /\ results_df = NoTable
    /\ normal_mean = <<>>
    /\ normal_std = <<>>
    /\ full_data = NoTable
    /\ final_anomalies = NoTable
    /\ error = "none"
    /\ pc = "idle"
    /\ raw_df = NoTable
    /\ columns_to_keep = <<>>
    /\ df_index = <<>>
    /\ fit_calls = 0
    /\ cause = "none"
    /\ fit_memo = NoMemo
    /\ prev_run = NoRun

\* a calibrator is about to be called on a score sequence
InitCal ==
    /\ cal_scores \in ScoreSeqs
    /\ cal_container \in Containers
    /\ cal_method = ""
    /\ cal_probs = <<>>
    /\ cal_pc = "ready"
    /\ DetIdle
    /\ OpsIdle

\* an AnomalyDetector is about to be called on a prepared feature table
InitDet ==
    /\ features_df \in FeatureTables
    /\ config \in Configs
    /\ results_df = NoTable
    /\ normal_mean = <<>>
    /\ normal_std = <<>>
    /\ full_data = NoTable
    /\ final_anomalies = NoTable
    /\ error = "none"
    /\ pc = "ready"
    /\ raw_df = NoTable
    /\ columns_to_keep = <<>>
    /\ df_index = [i \in DOMAIN features_df.rows |-> i]
    /\ fit_calls = 0
    /\ cause = "none"
    /\ fit_memo = NoMemo
    /\ prev_run = NoRun
    /\ CalIdle
    /\ OpsIdle

\* ETLPipeline.transform is about to run on the extractor's raw table
InitPipe ==
    /\ raw_df \in RawTables
    /\ columns_to_keep \in ColumnSelections
    /\ config = NoConfig
    /\ features_df = NoTable
    /\ df_index = <<>>
    /\ results_df = NoTable
    /\ normal_mean = <<>>
    /\ normal_std = <<>>
    /\ full_data = NoTable
    /\ final_anomalies = NoTable
    /\ error = "none"
    /\ pc = "raw"
    /\ fit_calls = 0
    /\ cause = "none"
    /\ fit_memo = NoMemo
    /\ prev_run = NoRun
    /\ CalIdle
    /\ OpsIdle

\* isolation_forest_to_probability(anomaly_scores, method)
IsolationForestToProbability ==
    /\ cal_pc = "ready"
    /\ \E method \in Methods :
        /\ cal_method' = method
        /\ cal_probs' = isolation_forest_to_probability(cal_scores, method, cal_container)
    /\ cal_pc' = "done"
    /\ UNCHANGED <<cal_scores, cal_container, det_vars, pipe_vars, run_vars, ops_vars>>

\* AnomalyDetector._convert_scores_to_probabilities, anomalies-only variant
\* (always handed a pandas Series)
ConvertScoresToProbabilities ==
    /\ cal_pc = "ready"
    /\ cal_container = "Series"
    /\ cal_method' = "detector_anomalies_only"
    /\ cal_probs' = convert_scores_to_probabilities(cal_scores)
    /\ cal_pc' = "done"
    /\ UNCHANGED <<cal_scores, cal_container, det_vars, pipe_vars, run_vars, ops_vars>>

\* AnomalyDetector._convert_scores_to_probabilities, all-rows variant
ConvertScoresToProbabilitiesFull ==
    /\ cal_pc = "ready"
    /\ cal_container = "Series"
    /\ cal_method' = "detector_all_rows"
    /\ cal_probs' = convert_scores_to_probabilities_full(cal_scores)
    /\ cal_pc' = "done"
    /\ UNCHANGED <<cal_scores, cal_container, det_vars, pipe_vars, run_vars, ops_vars>>

\* the empty report with the anomalies-only variant's column names
FinalAnomaliesReasonColumn(anomalies) ==
    IF Len(anomalies.rows) = 0
    THEN EmptyFrame(<<"IP", "anomaly_reason", "probability">>)
    ELSE Project(anomalies, <<"IP", "evidence", "probability">>)

\* the anomalies-only report of the full-data variant
FinalAnomalies(anomalies) ==
    IF Len(anomalies.rows) = 0
    THEN EmptyFrame(<<"IP", "evidence", "probability">>)
    ELSE Project(anomalies, <<"IP", "evidence", "probability">>)

\* the seed advancing with every fit (a generator carried across runs)
SeedOfAdvancing(detector, calls) == detector.random_state + calls

\* random_state=self.random_state: the seed of the fit number calls + 1
SeedOf(detector, calls) == detector.random_state

\* what IsolationForest is constructed with and fitted on
FitKey(X, detector, calls) ==
    <<X, detector.contamination, SeedOf(detector, calls)>>

\* IsolationForest.fit_predict / decision_function (scikit-learn).  A matrix
\* without rows or without columns is rejected (ValueError); otherwise the
\* fit returns a score per row or raises.  With an integer random_state the
\* library is a function of its input: the same matrix, contamination and
\* seed as in the recorded fit give the recorded outcome again.
IsolationForestFit(memo, key, X, degenerate) ==
    IF degenerate
    THEN {[raised |-> TRUE, scores |-> <<>>]}
    ELSE IF memo.key = key
    THEN {memo.outcome}
    ELSE {[raised |-> TRUE, scores |-> <<>>]}
         \cup {[raised |-> FALSE, scores |-> sc] : sc \in [DOMAIN X -> DetScoreVals]}

\* pd.Series(prob) without index=: the labels 1..n of a fresh range index
ProbabilitySeriesRangeIndex(index, values) ==
    [index |-> [i \in DOMAIN values |-> i], values |-> values]

\* pd.Series(prob, index=anomaly_scores.index)
ProbabilitySeries(index, values) == [index |-> index, values |-> values]

\* results_df[name] = series: pandas aligns the series with the frame by row
\* label; a label the series does not have gives NaN
AlignToIndex(index, series) ==
    Strict([i \in DOMAIN index |->
        IF \E q \in DOMAIN series.index : series.index[q] = index[i]
        THEN series.values[CHOOSE q \in DOMAIN series.index :
                               series.index[q] = index[i]]
        ELSE NaN])

\* results_df = features_df: the working frame is the caller's object
FrameSameObject(df) == [shared |-> TRUE, frame |-> df]

\* results_df = features_df.copy(): the working frame is a new object
FrameCopy(df) == [shared |-> FALSE, frame |-> df]

\* the caller's table after the column assignments to the working frame
CallerFrame(work, original, assigned) ==
    IF work.shared THEN assigned ELSE original

\* one call of AnomalyDetector.detect_anomalies (full-data variant) on
\* features_df; fit_calls, cause and fit_memo follow this variant's calls
DetectAnomaliesCall ==
    LET X == PrepareX(features_df)
        feature_cols == FeatureCols(features_df)
        detector == AnomalyDetectorInit(config)
        key == FitKey(X, detector, fit_calls)
        degenerate == Len(feature_cols) = 0 \/ Len(X) = 0
    IN  \E outcome \in IsolationForestFit(fit_memo, key, X, degenerate) :
        /\ fit_calls' = fit_calls + 1
        /\ fit_memo' = [key |-> key, outcome |-> outcome]
        /\ IF outcome.raised
           THEN \* the fit raised before any frame was built: the except
                \* clause wraps the failure in a TransformationError chained
                \* to the original
                /\ error' = "TransformationError"
                /\ cause' = IF degenerate THEN "ValueError: empty matrix"
                            ELSE "fit failure"
                /\ results_df' = NoTable
                /\ normal_mean' = <<>>
                /\ normal_std' = <<>>
                /\ full_data' = NoTable
                /\ final_anomalies' = NoTable
                /\ features_df' = features_df
           ELSE LET anomaly_scores == outcome.scores
                    anomaly_labels == FitPredict(anomaly_scores)
                    mask == AnomalyMask(anomaly_labels)
                    work == FrameCopy(features_df)
                    r1 == WithColumn(work.frame, "is_anomaly", mask)
                    r2 == WithColumn(r1, "anomaly_score", anomaly_scores)
                    r3 == AddEvidenceExplanations(r2, X, feature_cols, mask)
                    r4 == WithColumn(r3, "probability",
                              AlignToIndex(df_index,
                                  ProbabilitySeries(df_index,
                                      convert_scores_to_probabilities_full(
                                          Column(r3, "anomaly_score")))))
                    anomalies == OnlyAnomalies(r4)
                IN  /\ features_df' = CallerFrame(work, features_df, r4)
                    /\ IF ~("IP" \in Range(features_df.columns))
                       THEN \* results_df[['IP', ...]] raises KeyError
                            /\ error' = "TransformationError"
                            /\ cause' = "KeyError: IP"
                            /\ results_df' = NoTable
                            /\ normal_mean' = <<>>
                            /\ normal_std' = <<>>
                            /\ full_data' = NoTable
                            /\ final_anomalies' = NoTable
                       ELSE /\ results_df' = r4
                            /\ normal_mean' = NormalMean(X, mask, Len(feature_cols))
                            /\ normal_std' = NormalStd(X, mask, Len(feature_cols))
                            /\ full_data' = Project(r4,
                                   <<"IP", "evidence", "probability", "is_anomaly">>)
                            /\ final_anomalies' = FinalAnomalies(anomalies)
                            /\ error' = "none"
                            /\ cause' = "none"

\* AnomalyDetector.detect_anomalies, full-data variant
\* (transform/.ipynb_checkpoints/anomaly_detector-checkpoint.py)
DetectAnomalies ==
    /\ pc = "ready"
    /\ DetectAnomaliesCall
    /\ pc' = "full"
    /\ UNCHANGED <<config, cal_vars, ops_vars, pipe_vars, prev_run>>

\* a second call on the same table, by the same AnomalyDetector or by a fresh
\* one built from the same configuration (the handler reads self.contamination,
\* self.random_state and self.n_jobs and assigns none of them)
DetectAnomaliesAgain ==
    /\ pc = "full"
    /\ prev_run' = [results_df |-> results_df, full_data |-> full_data,
                    final_anomalies |-> final_anomalies,
                    error |-> error, cause |-> cause]
    /\ DetectAnomaliesCall
    /\ pc' = "again"
    /\ UNCHANGED <<config, cal_vars, ops_vars, pipe_vars>>

\* FeatureEngineer.prepare_features called by ETLPipeline.transform
PrepareFeatures ==
    /\ pc = "raw"
    /\ LET r == prepare_features(raw_df, columns_to_keep)
       IN  /\ features_df' = r.df
           /\ df_index' = r.index
           /\ error' = r.error
           /\ cause' = r.cause
           /\ pc' = IF r.error = "none" THEN "ready" ELSE "failed"
    /\ UNCHANGED <<config, results_df, normal_mean, normal_std, full_data,
                   final_anomalies, raw_df, columns_to_keep, fit_calls,
                   fit_memo, prev_run, cal_vars, ops_vars>>

\* main() of high_risk_ip_detection.py, the cleaning of the raw frame:
\* df[cfg["feature_engineering"]["columns_to_stay"]] raises KeyError when a
\* listed column is absent; dropna() follows and nothing tests for emptiness
HighRiskIpDetectionClean ==
    /\ pc = "raw"
    /\ IF MissingColumns(columns_to_keep, raw_df) # <<>>
       THEN /\ error' = "KeyError"
            /\ cause' = "none"
            /\ pc' = "legacy_failed"
            /\ UNCHANGED <<features_df, df_index>>
       ELSE LET selected == Project(raw_df, columns_to_keep)
                keep == NotNullRows(selected)
            IN  /\ features_df' = TakeRows(selected, keep)
                /\ df_index' = keep
                /\ error' = "none"
                /\ cause' = "none"
                /\ pc' = "legacy_clean"
    /\ UNCHANGED <<config, results_df, normal_mean, normal_std, full_data,
                   final_anomalies, raw_df, columns_to_keep, fit_calls,
                   fit_memo, prev_run, cal_vars, ops_vars>>

\* AnomalyDetector.detect_anomalies, anomalies-only variant
\* (transform/anomaly_detector.py)
DetectAnomaliesV1 ==
    /\ pc = "ready"
    /\ LET X == PrepareX(features_df)
           feature_cols == FeatureCols(features_df)
       IN  IF Len(feature_cols) = 0 \/ ~("IP" \in Range(features_df.columns))
           THEN /\ error' = "TransformationError"
                /\ UNCHANGED <<results_df, normal_mean, normal_std, final_anomalies>>
           ELSE \E anomaly_scores \in [DOMAIN features_df.rows -> DetScoreVals] :
                LET anomaly_labels == FitPredict(anomaly_scores)
                    mask == AnomalyMask(anomaly_labels)
                    r1 == WithColumn(features_df, "is_anomaly", mask)
                    r2 == WithColumn(r1, "anomaly_score", anomaly_scores)
                    r3 == AddAnomalyExplanations(r2, X, feature_cols, mask)
                    anomalies == OnlyAnomalies(r3)
                    flagged == \E i \in DOMAIN mask : mask[i]
                IN  /\ results_df' = r3
                    /\ normal_mean' = IF flagged
                                      THEN NormalMean(X, mask, Len(feature_cols))
                                      ELSE <<>>
                    /\ normal_std' = IF flagged
                                     THEN NormalStd(X, mask, Len(feature_cols))
                                     ELSE <<>>
                    /\ final_anomalies' =
                           IF Len(anomalies.rows) = 0
                           THEN EmptyFrame(<<"IP", "anomaly_reason", "probability">>)
                           ELSE Project(
                                    WithColumn(anomalies, "probability",
                                        convert_scores_to_probabilities(
                                            Column(anomalies, "anomaly_score"))),
                                    <<"IP", "anomaly_reason", "probability">>)
                    /\ error' = "none"
    /\ pc' = "v1"
    /\ UNCHANGED <<features_df, config, full_data, cal_vars, ops_vars, pipe_vars, run_vars>>

\* main() of high_risk_ip_detection.py from the cleaned frame on:
\* GraphAnomalyDetector.run, then isolation_forest_to_probability over the
\* flagged rows; nothing catches an exception here
HighRiskIpDetectionMain ==
    /\ pc = "ready"
    /\ LET X == PrepareX(features_df)
           feature_cols == FeatureCols(features_df)
       IN  IF ~("IP" \in Range(features_df.columns))
           THEN /\ error' = "KeyError"
                /\ UNCHANGED <<results_df, normal_mean, normal_std, final_anomalies>>
           ELSE IF Len(feature_cols) = 0
           THEN /\ error' = "ValueError"
                /\ UNCHANGED <<results_df, normal_mean, normal_std, final_anomalies>>
           ELSE \E anomaly_scores \in [DOMAIN features_df.rows -> DetScoreVals] :
                LET mask == AnomalyMask(FitPredict(anomaly_scores))
                    r1 == WithColumn(features_df, "is_anomaly", mask)
                    r2 == WithColumn(r1, "anomaly_score", anomaly_scores)
                    r3 == GraphExplanations(r2, X, feature_cols, mask)
                    anomalies == OnlyAnomalies(r3)
                    probs == isolation_forest_to_probability(
                                 Column(anomalies, "anomaly_score"),
                                 "severity_ranking", "Series")
                    flagged == \E i \in DOMAIN mask : mask[i]
                IN  /\ results_df' = r3
                    /\ normal_mean' = IF flagged
                                      THEN GraphMean(X, mask, Len(feature_cols))
                                      ELSE <<>>
                    /\ normal_std' = IF flagged
                                     THEN GraphStd(X, mask, Len(feature_cols))
                                     ELSE <<>>
                    /\ final_anomalies' =
                           Project(WithColumn(anomalies, "probability", probs),
                                   <<"IP", "anomaly_reason", "probability">>)
                    /\ error' = "none"
    /\ pc' = "graph"
    /\ UNCHANGED <<features_df, config, full_data, cal_vars, ops_vars, pipe_vars, run_vars>>

NextCal ==
    \/ IsolationForestToProbability
    \/ ConvertScoresToProbabilities
    \/ ConvertScoresToProbabilitiesFull

NextDet ==
    \/ DetectAnomalies
    \/ DetectAnomaliesAgain
    \/ DetectAnomaliesV1
    \/ HighRiskIpDetectionMain

NextPipe ==
    \/ PrepareFeatures
    \/ HighRiskIpDetectionClean
    \/ DetectAnomalies

\* the calibrators as pure functions of a score sequence
SpecCalib == InitCal /\ [][NextCal]_vars

\* the detection handlers on a prepared feature table
SpecDetect == InitDet /\ [][NextDet]_vars

\* ETLPipeline.transform on a raw table: prepare_features, then
\* detect_anomalies on what it returned
SpecPipeline == InitPipe /\ [][NextPipe]_vars

(***************************************************************************)
(* Properties of the calibrators (SpecCalib)                               *)
(***************************************************************************)
AllEqual(s) == \A i, j \in DOMAIN s : s[i] = s[j]

\* C1: calibration monotonicity.  Whichever calibrator ran (the five
\* strategies, the anomalies-only and the all-rows detector variant), a row
\* with a strictly lower score never has a lower probability than a row
\* with a higher score.
CalibrationMonotone ==
    cal_pc = "done" =>
        \A i, j \in DOMAIN cal_scores :
            cal_scores[i] < cal_scores[j] => Geq(cal_probs[i], cal_probs[j])

\* the all-rows variant has ranked a negative score strictly above a
\* non-negative one, and two negative scores strictly
CalibrationMonotoneWitness ==
    /\ cal_pc = "done"
    /\ cal_method = "detector_all_rows"
    /\ \E i, j, k \in DOMAIN cal_scores :
        /\ cal_scores[i] < cal_scores[j] /\ cal_scores[j] < 0 /\ cal_scores[k] >= 0
        /\ cal_probs[i] > cal_probs[j] /\ cal_probs[j] > cal_probs[k]

\* C2: calibration range.  Every output of every calibrator on a non-empty
\* score sequence (a single score included) is a number in [0,1], and in
\* [0.5,1] for the calibrators that work on the anomaly subset.
CalibrationRange ==
    cal_pc = "done" =>
        \A i \in DOMAIN cal_probs :
            /\ InRange(cal_probs[i], 0, Scale)
            /\ cal_method # "detector_all_rows" => InRange(cal_probs[i], Half, Scale)

\* C3: degenerate score safety.  On all-equal scores (any length >= 1) every
\* calibrator returns one and the same constant for every row, the constant
\* is 0.5 or 0.75, and no output is NaN.
DegenerateConstant ==
    (cal_pc = "done" /\ AllEqual(cal_scores)) =>
        \E c \in {Half, ThreeQuarters} :
            \A i \in DOMAIN cal_probs : ~IsNaN(cal_probs[i]) /\ cal_probs[i] = c

(***************************************************************************)
(* Properties of the detection handlers (SpecDetect)                       *)
(***************************************************************************)
Ran(variants) == pc \in variants /\ error = "none"
RowCount == Len(features_df.rows)
Flagged == {i \in DOMAIN results_df.rows : results_df.rows[i]["is_anomaly"]}
Unflagged == {i \in DOMAIN results_df.rows : ~results_df.rows[i]["is_anomaly"]}
ScoreOf(i) == results_df.rows[i]["anomaly_score"]

\* C4: severity_ranking on all-equal scores.  When the flagged rows all have
\* the same score (in particular when exactly one row is flagged), every row
\* of an anomalies-only report (the anomalies-only AnomalyDetector, and
\* isolation_forest_to_probability with severity_ranking in the legacy job)
\* has probability exactly 0.75; when all rows have the same score, every
\* row of the full-data report has probability exactly 0.5.
SeverityRankingDegenerate ==
    /\ (Ran({"v1", "graph"}) /\ \A i, j \in Flagged : ScoreOf(i) = ScoreOf(j)) =>
           \A r \in DOMAIN final_anomalies.rows :
               final_anomalies.rows[r]["probability"] = 750
    /\ (Ran({"full"}) /\ \A i, j \in DOMAIN results_df.rows : ScoreOf(i) = ScoreOf(j)) =>
           \A r \in DOMAIN full_data.rows :
               full_data.rows[r]["probability"] = 500

\* the anomalies-only detector flagged exactly one of two rows and reported
\* it with probability 0.75
SeverityRankingDegenerateWitness ==
    /\ Ran({"v1"})
    /\ RowCount = 2
    /\ Cardinality(Flagged) = 1
    /\ Len(final_anomalies.rows) = 1
    /\ final_anomalies.rows[1]["probability"] = 750

\* C5: in the full-data report, when the scores are not all equal, a flagged
\* row has probability in [0.5,1] and an unflagged row in [0,0.5].
FullReportSplit ==
    (Ran({"full"}) /\ \E i, j \in DOMAIN results_df.rows : ScoreOf(i) # ScoreOf(j)) =>
        \A r \in DOMAIN full_data.rows :
            LET p == full_data.rows[r]["probability"]
            IN  IF full_data.rows[r]["is_anomaly"]
                THEN InRange(p, 500, 1000)
                ELSE InRange(p, 0, 500)

\* an unflagged row with score 0 sits at the upper end of its range, 0.5,
\* next to an unflagged row with a positive score at 0
FullReportSplitWitness ==
    /\ Ran({"full"})
    /\ \E i, j \in Unflagged :
        /\ ScoreOf(i) = 0 /\ ScoreOf(j) > 0
        /\ full_data.rows[i]["probability"] = 500
        /\ full_data.rows[j]["probability"] = 0

\* the evidence of row i of the full-data report, and the features it names
EvidenceAt(i) == full_data.rows[i]["evidence"]
NamedFeatures(ev) == [p \in DOMAIN ev.details |-> ev.details[p].feat]
FeatureCount == Len(FeatureCols(features_df))

\* the deviations of row i against the recorded baseline
DeviationsAt(i) == Deviations(PrepareX(features_df)[i], normal_mean, normal_std)

\* feature indices by deviation descending, equal deviations in feature
\* order; its first three entries
StableDescending(d) ==
    LET pos(k) == 1 + Cardinality({j \in DOMAIN d :
                         d[j] > d[k] \/ (d[j] = d[k] /\ j < k)})
    IN  [p \in DOMAIN d |-> CHOOSE k \in DOMAIN d : pos(k) = p]
StableTopThree(d) ==
    SubSeq(StableDescending(d), 1, IF Len(d) < 3 THEN Len(d) ELSE 3)

\* C6: every row's evidence lists the features with the largest deviations
\* in descending order of deviation, and of two features with equal
\* deviation the one earlier in the feature-column order is selected first
\* and listed first.
EvidenceOrderStable ==
    Ran({"full"}) =>
        \A i \in DOMAIN full_data.rows :
            NamedFeatures(EvidenceAt(i)) =
                [p \in DOMAIN StableTopThree(DeviationsAt(i)) |->
                    FeatureCols(features_df)[StableTopThree(DeviationsAt(i))[p]]]

\* C7: the evidence baseline of the AnomalyDetector variants is the mean and
\* the standard deviation plus 1e-5 over exactly the unflagged rows, and
\* over all rows when every row is flagged; it is a finite number for every
\* feature and the call ends without error.
BaselineOverNormalRows ==
    (pc \in {"full", "v1"} /\ Len(normal_mean) > 0) =>
        LET X == PrepareX(features_df)
            B == IF Unflagged = {} THEN DOMAIN results_df.rows ELSE Unflagged
            n == Cardinality(B)
        IN  /\ error = "none"
            /\ Len(normal_mean) = FeatureCount
            /\ Len(normal_std) = FeatureCount
            /\ \A k \in DOMAIN normal_mean :
                LET s1 == SetSum(B, [i \in B |-> X[i][k]])
                    s2 == SetSum(B, [i \in B |-> X[i][k] * X[i][k]])
                    m == normal_mean[k]
                    s == normal_std[k] - 1
                IN  /\ ~IsNaN(m) /\ ~IsNaN(normal_std[k])
                    /\ n * m <= s1 /\ s1 < n * (m + 1)
                    /\ s >= 0
                    /\ (s * n) * (s * n) <= n * s2 - s1 * s1
                    /\ n * s2 - s1 * s1 < ((s + 1) * n) * ((s + 1) * n)

\* both rows are flagged and the baseline over all rows has a feature with
\* a non-zero spread
BaselineOverNormalRowsWitness ==
    /\ Ran({"full"})
    /\ RowCount = 2
    /\ Unflagged = {}
    /\ \E k \in DOMAIN normal_std : normal_std[k] > 1 /\ normal_mean[k] > 0

\* C8: in the full-data variant every input row gets a computed evidence:
\* it starts with "Outlier - " exactly when the row is flagged, with
\* "Inlier - " exactly when it is not, and is never the placeholder "Normal".
EvidenceForEveryRow ==
    Ran({"full"}) =>
        /\ Len(full_data.rows) = RowCount
        /\ \A i \in DOMAIN full_data.rows :
            /\ EvidenceAt(i).prefix = "Outlier - " <=> full_data.rows[i]["is_anomaly"]
            /\ EvidenceAt(i).prefix = "Inlier - " <=> ~full_data.rows[i]["is_anomaly"]
            /\ EvidenceAt(i).prefix # "Normal"

\* a flagged row with an Outlier evidence next to an unflagged row with an
\* Inlier evidence
EvidenceForEveryRowWitness ==
    /\ Ran({"full"})
    /\ \E i, j \in DOMAIN full_data.rows :
        /\ full_data.rows[i]["is_anomaly"] /\ EvidenceAt(i).prefix = "Outlier - "
        /\ ~full_data.rows[j]["is_anomaly"] /\ EvidenceAt(j).prefix = "Inlier - "
        /\ Len(EvidenceAt(j).details) > 0

ReportColumns == {"IP", "evidence", "probability"}

\* C11: the anomalies-only report of the full-data variant is the full-data
\* report restricted to the rows with is_anomaly = TRUE, in the same order,
\* projected onto IP, evidence, probability: every flagged row appears with
\* the same IP, evidence and probability, and no unflagged row appears.
AnomaliesReportIsFilteredFullReport ==
    Ran({"full"}) =>
        LET F == Ascending({i \in DOMAIN full_data.rows :
                               full_data.rows[i]["is_anomaly"]})
        IN  /\ final_anomalies.columns = <<"IP", "evidence", "probability">>
            /\ Len(final_anomalies.rows) = Len(F)
            /\ \A p \in DOMAIN final_anomalies.rows :
                /\ DOMAIN final_anomalies.rows[p] = ReportColumns
                /\ \A c \in ReportColumns :
                      final_anomalies.rows[p][c] = full_data.rows[F[p]][c]

\* an unflagged first row and a flagged second row: the anomalies-only
\* report holds the second row alone
AnomaliesReportIsFilteredFullReportWitness ==
    /\ Ran({"full"})
    /\ Len(full_data.rows) = 2
    /\ ~full_data.rows[1]["is_anomaly"]
    /\ full_data.rows[2]["is_anomaly"]
    /\ Len(final_anomalies.rows) = 1
    /\ final_anomalies.rows[1]["IP"] = "ip2"

\* C12: the full-data report has one row per row of the table handed to
\* detect_anomalies, in that order; row i carries the IP of input row i and
\* the label, probability and evidence computed for input row i, also when
\* the table's row labels are not contiguous after the null dropping.
FullReportRowPairing ==
    (pc = "full" /\ error = "none") =>
        LET X == PrepareX(features_df)
            scores == Column(results_df, "anomaly_score")
            mask == [i \in DOMAIN scores |-> scores[i] < 0]
            probs == convert_scores_to_probabilities_full(scores)
        IN  /\ Len(full_data.rows) = Len(features_df.rows)
            /\ \A i \in DOMAIN full_data.rows :
                /\ full_data.rows[i]["IP"] = features_df.rows[i]["IP"]
                /\ full_data.rows[i]["IP"] = raw_df.rows[df_index[i]]["IP"]
                /\ full_data.rows[i]["is_anomaly"] = mask[i]
                /\ full_data.rows[i]["probability"] = probs[i]
                /\ full_data.rows[i]["evidence"] =
                      EvidenceOf(X, FeatureCols(features_df), mask,
                                 normal_mean, normal_std, i)

\* the second of three raw rows was dropped, the rows labelled 1 and 3 are
\* reported with different probabilities
FullReportRowPairingWitness ==
    /\ pc = "full"
    /\ error = "none"
    /\ df_index = <<1, 3>>
    /\ Len(full_data.rows) = 2
    /\ full_data.rows[1]["probability"] # full_data.rows[2]["probability"]
    /\ full_data.rows[2]["IP"] = "ip3"

\* prepare_features has run (detect_anomalies may have followed)
Prepared == pc \in {"ready", "failed", "full"}
PreparedOk == pc \in {"ready", "full"}

\* the columns of the selection that the raw table has
PresentSelected == Range(columns_to_keep) \cap Range(raw_df.columns)

\* the columns that survive the selection
Surviving ==
    IF columns_to_keep = <<>> THEN Range(raw_df.columns) ELSE PresentSelected

\* the raw rows without a missing cell in a surviving column
CompleteRows ==
    {i \in DOMAIN raw_df.rows : \A c \in Surviving : ~IsNull(raw_df.rows[i], c)}

\* C13: with a selection configured and none of its columns in the raw
\* table, prepare_features fails with an error of kind ConfigurationError.
EmptySelectionIsConfigurationError ==
    (Prepared /\ columns_to_keep # <<>> /\ PresentSelected = {}) =>
        /\ pc = "failed"
        /\ error = "ConfigurationError"

\* C14: with a selection configured and at least one of its columns present,
\* prepare_features does not fail because of the absent ones: the columns of
\* the table it returns are exactly the selected columns that the raw table
\* has, in selection order.
SelectionKeepsPresentColumns ==
    (Prepared /\ columns_to_keep # <<>> /\ PresentSelected # {}) =>
        /\ pc = "failed" =>
              cause = "TransformationError: No data remaining after cleaning"
        /\ PreparedOk =>
            LET cols == features_df.columns
                at(c) == CHOOSE p \in DOMAIN columns_to_keep : columns_to_keep[p] = c
            IN  /\ Range(cols) = PresentSelected
                /\ Len(cols) = Cardinality(PresentSelected)
                /\ \A p, q \in DOMAIN cols : p < q => at(cols[p]) < at(cols[q])

\* the selection f2, zz, IP: zz is absent, the table returned has f2 and IP
SelectionKeepsPresentColumnsWitness ==
    /\ pc = "ready"
    /\ columns_to_keep = <<"f2", "zz", "IP">>
    /\ features_df.columns = <<"f2", "IP">>
    /\ Len(features_df.rows) = 2

\* C15: prepare_features keeps exactly the raw rows without a missing cell in
\* a surviving column, in their order and with their values; a missing cell
\* in a column that was not selected drops no row.
KeepsCompleteRows ==
    PreparedOk =>
        /\ Range(df_index) = CompleteRows
        /\ Len(features_df.rows) = Cardinality(CompleteRows)
        /\ Len(df_index) = Len(features_df.rows)
        /\ \A p, q \in DOMAIN df_index : p < q => df_index[p] < df_index[q]
        /\ \A p \in DOMAIN features_df.rows :
            /\ DOMAIN features_df.rows[p] = Surviving
            /\ \A c \in Surviving :
                  features_df.rows[p][c] = raw_df.rows[df_index[p]][c]

\* the selection IP, f1: the first row misses f2 only and is kept, the second
\* misses f1 and is dropped, the third is kept
KeepsCompleteRowsWitness ==
    /\ pc = "ready"
    /\ columns_to_keep = <<"IP", "f1">>
    /\ Len(raw_df.rows) = 3
    /\ raw_df.rows[1]["f2"] = Null
    /\ raw_df.rows[2]["f1"] = Null
    /\ df_index = <<1, 3>>

\* C16: prepare_features fails with TransformationError and returns no table
\* whenever no row remains after the incomplete rows are dropped, the empty
\* raw table included; a table it returns has at least one row.
NoEmptyTable ==
    Prepared =>
        /\ CompleteRows = {} =>
            /\ pc = "failed"
            /\ error = "TransformationError"
            /\ features_df = NoTable
        /\ PreparedOk => Len(features_df.rows) > 0

\* a raw table whose every row misses a cell: the call failed
NoEmptyTableWitness ==
    /\ pc = "failed"
    /\ Len(raw_df.rows) = 2
    /\ columns_to_keep = <<>>
    /\ cause = "TransformationError: No data remaining after cleaning"

\* C17: for every selection, the table prepare_features returns has the IP
\* column, and the model's feature set is every other surviving column and
\* never IP.
IpAlwaysRetained ==
    PreparedOk =>
        /\ "IP" \in Range(features_df.columns)
        /\ Range(FeatureCols(features_df)) = Range(features_df.columns) \ {"IP"}

\* C18: no two rows of the table handed to detect_anomalies, and none of the
\* full-data report, carry the same IP.
IpUniqueInBatch ==
    (PreparedOk /\ "IP" \in Range(features_df.columns)) =>
        /\ \A i, j \in DOMAIN features_df.rows :
              i # j => features_df.rows[i]["IP"] # features_df.rows[j]["IP"]
        /\ \A i, j \in DOMAIN full_data.rows :
              i # j => full_data.rows[i]["IP"] # full_data.rows[j]["IP"]

(***************************************************************************)
(* Properties of repeated and of failing runs (SpecDetect)                 *)
(***************************************************************************)
\* C19: a second call of detect_anomalies on the same table with the same
\* contamination and seed, by the same or a fresh detector, returns what the
\* first call returned: the same labels, scores, probabilities and evidence
\* for every row, the same two reports (or the same failure).
RunsAgree ==
    pc = "again" =>
        /\ fit_calls = 2
        /\ results_df = prev_run.results_df
        /\ full_data = prev_run.full_data
        /\ final_anomalies = prev_run.final_anomalies
        /\ error = prev_run.error
        /\ cause = prev_run.cause

\* two successful runs over two rows, one flagged and one not
RunsAgreeWitness ==
    /\ pc = "again"
    /\ error = "none"
    /\ Len(full_data.rows) = 2
    /\ Flagged # {}
    /\ Unflagged # {}
    /\ prev_run.full_data = full_data

\* C20: when the fit raises for a non-degenerate input, detect_anomalies
\* fails with an error of kind ModelError that carries the original failure,
\* returns no report and does not fit again.
FitFailureIsModelError ==
    (pc = "full" /\ cause = "fit failure") =>
        /\ error = "ModelError"
        /\ full_data = NoTable
        /\ final_anomalies = NoTable
        /\ fit_calls = 1

(***************************************************************************)
(* The calibration strategies one by one (SpecCalib)                       *)
(***************************************************************************)
Calibrated(methods) == cal_pc = "done" /\ cal_method \in methods
MostNegative == SeqMin(cal_scores)
LeastNegative == SeqMax(cal_scores)

\* C23: severity_ranking over the anomalies only, on scores that are not all
\* equal, is 0.5 + 0.5 * (m_i - min m) / (max m - min m) with m = -score:
\* the most negative score gets exactly 1.0, the least negative exactly 0.5,
\* and equal scores get equal probabilities.
SeverityRankingLinear ==
    (Calibrated({"severity_ranking", "detector_anomalies_only"})
        /\ ~AllEqual(cal_scores)) =>
        \A i \in DOMAIN cal_scores :
            /\ cal_probs[i] = Half + (Half * (LeastNegative - cal_scores[i]))
                                         \div (LeastNegative - MostNegative)
            /\ cal_scores[i] = MostNegative => cal_probs[i] = Scale
            /\ cal_scores[i] = LeastNegative => cal_probs[i] = Half
            /\ \A j \in DOMAIN cal_scores :
                  cal_scores[i] = cal_scores[j] => cal_probs[i] = cal_probs[j]

\* the scores -3, -1, -2 give 1.0, 0.5 and 0.75
SeverityRankingLinearWitness ==
    /\ Calibrated({"severity_ranking"})
    /\ cal_scores = <<-3, -1, -2>>
    /\ cal_probs = <<Scale, Half, ThreeQuarters>>

\* C24: percentile_within_anomalies, for every non-empty score sequence,
\* returns 0.5 + 0.5 * (r_i - 1) / (n - 1) with r_i the average rank of
\* -score_i: every output lies in [0.5, 1], tied rows get equal outputs, and
\* with pairwise distinct scores the least severe row gets 0.5 and the most
\* severe 1.0.
PercentileAverageRank ==
    Calibrated({"percentile_within_anomalies"}) =>
        /\ \A i \in DOMAIN cal_probs : InRange(cal_probs[i], Half, Scale)
        /\ \A i, j \in DOMAIN cal_scores :
              cal_scores[i] = cal_scores[j] => cal_probs[i] = cal_probs[j]
        /\ (\A i, j \in DOMAIN cal_scores : i # j => cal_scores[i] # cal_scores[j]) =>
              \A i \in DOMAIN cal_scores :
                  /\ cal_scores[i] = MostNegative => cal_probs[i] = Scale
                  /\ (Len(cal_scores) > 1 /\ cal_scores[i] = LeastNegative)
                        => cal_probs[i] = Half

\* C25: sigmoid_centered returns 0.75 for every row whenever all scores are
\* equal, a single score included, and no NaN.
SigmoidZeroSpreadConstant ==
    (Calibrated({"sigmoid_centered"}) /\ AllEqual(cal_scores)) =>
        \A i \in DOMAIN cal_probs : cal_probs[i] = ThreeQuarters

\* C26: threshold_based gives every row exactly one of 0.6, 0.7, 0.8, 0.95
\* by the place of its -score among the 25th, 50th and 75th percentiles of
\* -score (below p25: 0.6; [p25, p50): 0.7; [p50, p75): 0.8; at or above
\* p75: 0.95); the most negative score always gets 0.95.
ThresholdTiers ==
    Calibrated({"threshold_based"}) =>
        LET m == Negate(cal_scores)
            p25 == Percentile4(m, 1)
            p50 == Percentile4(m, 2)
            p75 == Percentile4(m, 3)
        IN  \A i \in DOMAIN cal_scores :
                /\ cal_probs[i] \in {P060, P070, P080, P095}
                /\ cal_probs[i] = P060 <=> 4 * m[i] < p25
                /\ cal_probs[i] = P070 <=> (p25 <= 4 * m[i] /\ 4 * m[i] < p50)
                /\ cal_probs[i] = P080 <=> (p50 <= 4 * m[i] /\ 4 * m[i] < p75)
                /\ cal_probs[i] = P095 <=> p75 <= 4 * m[i]
                /\ cal_scores[i] = MostNegative => cal_probs[i] = P095

\* four distinct scores, one in each tier
ThresholdTiersWitness ==
    /\ Calibrated({"threshold_based"})
    /\ cal_scores = <<-3, -2, -1, 0>>
    /\ cal_probs = <<P095, P080, P070, P060>>

(***************************************************************************)
(* Frame effect of the two transform steps (SpecPipeline)                  *)
(***************************************************************************)
\* C22: prepare_features and detect_anomalies leave the table passed to them
\* as it was, whether they return or raise: the same columns, rows and
\* values, no added column, no imputed value, no dropped row.
CallerTablesUnchanged ==
    [][/\ pc = "raw" => raw_df' = raw_df
       /\ pc = "ready" => (features_df' = features_df /\ raw_df' = raw_df)]_vars

\* detect_anomalies returned reports with the added columns while the table
\* it was handed has the surviving columns only, and the raw table still
\* holds the row that prepare_features dropped
CallerTablesUnchangedWitness ==
    /\ pc = "full"
    /\ error = "none"
    /\ features_df.columns = <<"IP", "f1", "f2">>
    /\ Len(results_df.columns) = 7
    /\ Len(raw_df.rows) = 3
    /\ Len(features_df.rows) = 2

(***************************************************************************)
(* generate_list_of_hour (core/utils.py)                                   *)
(*                                                                         *)
(* An hour string 'YYYYMMDD_HH' is the pair of the number written before   *)
(* the underscore and the number written after it; a datetime is a record  *)
(* of year, month, day and hour.                                           *)
(***************************************************************************)
MaxLookback == 4

\* the dates and hours of day the end hour is drawn from: year, leap-day,
\* month and day boundaries
EndDates == {20231231, 20240101, 20240228, 20240229, 20240301,
             20250228, 20250301, 20250430, 20250610, 20251231}
EndHoursOfDay == {0, 1, 12, 22, 23}
EndHours == {<<d, h>> : d \in EndDates, h \in EndHoursOfDay}
Lookbacks == (0..MaxLookback) \cup {25}

IsLeap(year) == (year % 4 = 0 /\ year % 100 # 0) \/ year % 400 = 0

DaysInMonth(year, month) ==
    IF month = 2 THEN (IF IsLeap(year) THEN 29 ELSE 28)
    ELSE IF month \in {4, 6, 9, 11} THEN 30 ELSE 31

\* datetime.strptime(s, '%Y%m%d_%H')
Strptime(s) ==
    [year |-> s[1] \div 10000, month |-> (s[1] \div 100) % 100,
     day |-> s[1] % 100, hour |-> s[2]]

\* datetime.strftime('%Y%m%d_%H')
Strftime(dt) == <<dt.year * 10000 + dt.month * 100 + dt.day, dt.hour>>

\* dt + timedelta(hours=1)
PlusOneHour(dt) ==
    IF dt.hour < 23 THEN [dt EXCEPT !.hour = dt.hour + 1]
    ELSE IF dt.day < DaysInMonth(dt.year, dt.month)
         THEN [dt EXCEPT !.hour = 0, !.day = dt.day + 1]
    ELSE IF dt.month < 12
         THEN [dt EXCEPT !.hour = 0, !.day = 1, !.month = dt.month + 1]
    ELSE [year |-> dt.year + 1, month |-> 1, day |-> 1, hour |-> 0]

\* dt - timedelta(hours=1)
MinusOneHour(dt) ==
    IF dt.hour > 0 THEN [dt EXCEPT !.hour = dt.hour - 1]
    ELSE IF dt.day > 1
         THEN [dt EXCEPT !.hour = 23, !.day = dt.day - 1]
    ELSE IF dt.month > 1
         THEN [dt EXCEPT !.hour = 23, !.month = dt.month - 1,
                         !.day = DaysInMonth(dt.year, dt.month - 1)]
    ELSE [year |-> dt.year - 1, month |-> 12, day |-> 31, hour |-> 23]

\* dt - timedelta(hours=k), k of either sign
RECURSIVE MinusHours(_, _)
MinusHours(dt, k) ==
    IF k = 0 THEN dt
    ELSE IF k > 0 THEN MinusHours(MinusOneHour(dt), k - 1)
    ELSE MinusHours(PlusOneHour(dt), k + 1)

\* a <= b on datetimes
DatetimeLeq(a, b) ==
    LET ka == <<a.year, a.month, a.day, a.hour>>
        kb == <<b.year, b.month, b.day, b.hour>>
    IN  \/ ka = kb
        \/ \E i \in 1..4 : ka[i] < kb[i] /\ \A j \in 1..(i - 1) : ka[j] = kb[j]

\* start_datetime = end_datetime - timedelta(hours=lookback_period), the
\* whole period before the end hour
StartDatetimeWholePeriod(end_datetime, lookback) ==
    MinusHours(end_datetime, lookback)

\* start_datetime = end_datetime - timedelta(hours=lookback_period - 1)
StartDatetime(end_datetime, lookback) ==
    MinusHours(end_datetime, lookback - 1)

\* the while loop: append the hour string, advance by one hour
RECURSIVE HourLoop(_, _, _)
HourLoop(current_datetime, end_datetime, hour_list) ==
    IF DatetimeLeq(current_datetime, end_datetime)
    THEN HourLoop(PlusOneHour(current_datetime), end_datetime,
                  Append(hour_list, Strftime(current_datetime)))
    ELSE hour_list

generate_list_of_hour(end, lookback) ==
    LET end_datetime == Strptime(end)
        start_datetime == StartDatetime(end_datetime, lookback)
    IN  HourLoop(start_datetime, end_datetime, <<>>)

InitHours ==
    /\ end_hour \in EndHours
    /\ lookback_period \in Lookbacks
    /\ list_of_hour = <<>>
    /\ hour_pc = "ready"
    /\ CalIdle
    /\ DetIdle
    /\ FetchIdle
    /\ EtlIdle

GenerateListOfHour ==
    /\ hour_pc = "ready"
    /\ list_of_hour' = generate_list_of_hour(end_hour, lookback_period)
    /\ hour_pc' = "done"
    /\ UNCHANGED <<end_hour, lookback_period, cal_vars, det_vars, pipe_vars,
                   run_vars, fetch_vars, etl_vars>>

NextHours == GenerateListOfHour

SpecHours == InitHours /\ [][NextHours]_vars

\* the number of the hour an hour string names, counted from 1970-01-01 00h
\* by the closed form for the days of the proleptic Gregorian calendar
HourNumber(s) ==
    LET y0 == s[1] \div 10000
        m == (s[1] \div 100) % 100
        d == s[1] % 100
        y == IF m <= 2 THEN y0 - 1 ELSE y0
        era == y \div 400
        yoe == y - era * 400
        mp == IF m > 2 THEN m - 3 ELSE m + 9
        doy == (153 * mp + 2) \div 5 + d - 1
        doe == yoe * 365 + yoe \div 4 - yoe \div 100 + doy
    IN  (era * 146097 + doe - 719468) * 24 + s[2]

\* s is a string of format YYYYMMDD_HH naming a calendar hour
IsHourString(s) ==
    LET y == s[1] \div 10000
        m == (s[1] \div 100) % 100
        d == s[1] % 100
    IN  /\ y \in 1000..9999
        /\ m \in 1..12
        /\ d \in 1..DaysInMonth(y, m)
        /\ s[2] \in 0..23

StartDates == {NoDate, [digits |-> 20250610, dashed |-> FALSE],
               [digits |-> 20250610, dashed |-> TRUE]}

\* datetime.utcnow() at the time of the run
Clock == {Strptime(<<20250610, 0>>), Strptime(<<20250610, 13>>),
          Strptime(<<20240301, 0>>), Strptime(<<20240101, 2>>),
          Strptime(<<20251231, 23>>)}

\* dates.lookback_period of the configuration (4 when absent)
RunLookbacks == {0, 1, MaxLookback}

\* today.strftime('%Y%m%d')
StrftimeDate(dt) ==
    [digits |-> dt.year * 10000 + dt.month * 100 + dt.day, dashed |-> FALSE]

\* start_date.replace('-', '') when '-' in start_date
RemoveDashes(date) == [date EXCEPT !.dashed = FALSE]

Exception(type, text) == [type |-> type, message |-> <<text>>]

\* raise PipelineError(f"ETL Pipeline failed: {str(e)}") from e
PipelineErrorFrom(e) ==
    [type |-> "PipelineError",
     message |-> <<"ETL Pipeline failed: ">> \o e.message,
     cause |-> e]

\* ETLPipeline._prepare_context: the context, or the exception it raises
prepare_context(date, today, lookback) ==
    IF date = NoDate
    THEN LET delay_1_hour == MinusOneHour(today)
             hour_end == Strftime(delay_1_hour)
             hour_list == generate_list_of_hour(hour_end, lookback)
         IN  IF hour_list = <<>>
             THEN \* list_of_hour[0]
                  [raised |-> TRUE, context |-> NoContext,
                   e |-> Exception("IndexError", "list index out of range")]
             ELSE [raised |-> FALSE,
                   context |-> [start_date |-> RemoveDashes(StrftimeDate(today)),
                                start_hour |-> hour_list[1],
                                end_hour |-> hour_end,
                                list_of_hour |-> hour_list],
                   e |-> NoCause]
    ELSE \* start_hour, end_hour and list_of_hour are assigned in the branch
         \* not taken; the context dictionary reads start_hour first
         [raised |-> TRUE, context |-> NoContext,
          e |-> Exception("UnboundLocalError", "start_hour")]

\* what the phases' collaborators may do: return, or raise the phase's error
ExtractOutcomes ==
    {NoCause, Exception("ExtractionError", "Failed to get active clients"),
     Exception("ExtractionError", "Feature extraction failed")}
TransformOutcomes ==
    {NoCause, Exception("TransformationError", "Feature preparation failed"),
     Exception("TransformationError", "Anomaly detection failed")}

\* control after a phase whose exception is caught and logged, not re-raised
AfterPhaseContinue(e, next) == next

\* control after a phase: the next phase, or out of run through its except
AfterPhase(e, next) == IF e.type = "none" THEN next ELSE "raised"

\* str.format of a naming template with the context
Format(template, ctx) == <<template, "all_clients", ctx.start_hour, ctx.end_hour>>

\* the steps of load with BigQuery served before the files
LoadStepsBigQueryFirst ==
    <<[op |-> "BigQueryLoader", sink |-> "bq", data |-> "none",
       template |-> "none", error |-> "BigQuery client setup failed"],
      [op |-> "save_anomalies", sink |-> "bq", data |-> "anomalies",
       template |-> "flagged_ips", error |-> "BigQuery loading failed"],
      [op |-> "save_full_data", sink |-> "bq", data |-> "full_data",
       template |-> "full_data_ips_anomaly",
       error |-> "BigQuery full data loading failed"],
      [op |-> "save_anomalies", sink |-> "csv", data |-> "anomalies",
       template |-> "flagged_ips.csv", error |-> "CSV loading failed"],
      [op |-> "save_full_data", sink |-> "csv", data |-> "full_data",
       template |-> "full_data_ips_anomaly.csv",
       error |-> "CSV full data loading failed"]>>

\* the steps of ETLPipeline.load that can raise, in program order
LoadSteps ==
    <<[op |-> "save_anomalies", sink |-> "csv", data |-> "anomalies",
       template |-> "flagged_ips.csv", error |-> "CSV loading failed"],
      [op |-> "save_full_data", sink |-> "csv", data |-> "full_data",
       template |-> "full_data_ips_anomaly.csv",
       error |-> "CSV full data loading failed"],
      [op |-> "BigQueryLoader", sink |-> "bq", data |-> "none",
       template |-> "none", error |-> "BigQuery client setup failed"],
      [op |-> "save_anomalies", sink |-> "bq", data |-> "anomalies",
       template |-> "flagged_ips", error |-> "BigQuery loading failed"],
      [op |-> "save_full_data", sink |-> "bq", data |-> "full_data",
       template |-> "full_data_ips_anomaly",
       error |-> "BigQuery full data loading failed"]>>

\* the writes among the first k steps, each with the location it wrote
WritesDone(k, ctx) ==
    LET done == SubSeq(LoadSteps, 1, k)
        IsWrite(step) == step.data # "none"
        writes == SelectSeq(done, IsWrite)
    IN  [i \in DOMAIN writes |->
            [sink |-> writes[i].sink, data |-> writes[i].data,
             location |-> Format(writes[i].template, ctx)]]

\* the location the write of data to sink left, <<>> when there is none
LocationOf(written, sink, data) ==
    LET hits == {i \in DOMAIN written :
                    written[i].sink = sink /\ written[i].data = data}
    IN  IF hits = {} THEN <<>> ELSE written[CHOOSE i \in hits : TRUE].location

\* ETLPipeline.load with its step fail_at raising (0: none raises)
load(ctx, fail_at) ==
    LET k == IF fail_at = 0 THEN Len(LoadSteps) ELSE fail_at - 1
        written == WritesDone(k, ctx)
    IN  [sinks |-> written,
         e |-> IF fail_at = 0 THEN NoCause
               ELSE Exception(IF LoadSteps[fail_at].op = "BigQueryLoader"
                              THEN "ExtractionError" ELSE "LoadError",
                              LoadSteps[fail_at].error),
         results |-> IF fail_at = 0
                     THEN [csv_path |-> LocationOf(written, "csv", "anomalies"),
                           csv_full_data_path |->
                               LocationOf(written, "csv", "full_data"),
                           bq_table |-> LocationOf(written, "bq", "anomalies"),
                           bq_table_full_data |->
                               LocationOf(written, "bq", "full_data")]
                     ELSE NoResults]

InitRun ==
    /\ start_date \in StartDates
    /\ context = NoContext
    /\ phases = <<>>
    /\ sinks = <<>>
    /\ results = NoResults
    /\ run_error = NoError
    /\ run_pc = "start"
    /\ CalIdle
    /\ DetIdle
    /\ HourIdle
    /\ FetchIdle

\* run, line 163: context = self._prepare_context(start_date)
RunPrepareContext ==
    /\ run_pc = "start"
    /\ \E today \in Clock, lookback \in RunLookbacks :
        LET r == prepare_context(start_date, today, lookback)
        IN  /\ context' = r.context
            /\ run_error' = IF r.raised THEN PipelineErrorFrom(r.e) ELSE NoError
            /\ run_pc' = IF r.raised THEN "raised" ELSE "extract"
    /\ UNCHANGED <<start_date, phases, sinks, results, cal_vars, det_vars,
                   pipe_vars, run_vars, hour_vars, fetch_vars>>

\* run, line 167: extracted_data = self.extract(context)
RunExtract ==
    /\ run_pc = "extract"
    /\ phases' = Append(phases, "extract")
    /\ \E e \in ExtractOutcomes :
        /\ run_error' = IF e.type = "none" THEN run_error ELSE PipelineErrorFrom(e)
        /\ run_pc' = AfterPhase(e, "transform")
    /\ UNCHANGED <<start_date, context, sinks, results, cal_vars, det_vars,
                   pipe_vars, run_vars, hour_vars, fetch_vars>>

\* run, line 168: transformed_data = self.transform(extracted_data)
RunTransform ==
    /\ run_pc = "transform"
    /\ phases' = Append(phases, "transform")
    /\ \E e \in TransformOutcomes :
        /\ run_error' = IF e.type = "none" THEN run_error ELSE PipelineErrorFrom(e)
        /\ run_pc' = AfterPhase(e, "load")
    /\ UNCHANGED <<start_date, context, sinks, results, cal_vars, det_vars,
                   pipe_vars, run_vars, hour_vars, fetch_vars>>

\* run, lines 169-177: results = self.load(transformed_data); return results
RunLoad ==
    /\ run_pc = "load"
    /\ phases' = Append(phases, "load")
    /\ \E fail_at \in 0..Len(LoadSteps) :
        LET r == load(context, fail_at)
        IN  /\ sinks' = r.sinks
            /\ results' = r.results
            /\ run_error' = IF r.e.type = "none" THEN run_error
                            ELSE PipelineErrorFrom(r.e)
            /\ run_pc' = AfterPhase(r.e, "returned")
    /\ UNCHANGED <<start_date, context, cal_vars, det_vars, pipe_vars,
                   run_vars, hour_vars, fetch_vars>>

NextRun == RunPrepareContext \/ RunExtract \/ RunTransform \/ RunLoad

SpecRun == InitRun /\ [][NextRun]_vars

\* s is an initial segment of t
IsPrefixOf(s, t) == Len(s) <= Len(t) /\ s = SubSeq(t, 1, Len(s))

\* s ends with t
EndsWith(s, t) ==
    Len(t) <= Len(s) /\ SubSeq(s, Len(s) - Len(t) + 1, Len(s)) = t

PhaseOrder == <<"extract", "transform", "load">>

RunRaised == run_error.type # "none"

\* C21: run starts extract, transform, load in that order, each at most
\* once; once a phase has raised no later phase is started, run returns no
\* result and raises PipelineError whose message contains the original
\* error's message.
RunPhasesInOrder ==
    /\ [](/\ IsPrefixOf(phases, PhaseOrder)
          /\ RunRaised =>
                /\ run_pc = "raised"
                /\ results = NoResults
                /\ run_error.type = "PipelineError"
                /\ run_error.cause.message # <<>>
                /\ EndsWith(run_error.message, run_error.cause.message)
          /\ results # NoResults => (phases = PhaseOrder /\ ~RunRaised)
          /\ run_pc = "raised" => RunRaised)
    /\ [][RunRaised => phases' = phases]_vars

\* transform raised after extract returned: load was never started
RunPhasesInOrderWitness ==
    /\ run_pc = "raised"
    /\ phases = <<"extract", "transform">>
    /\ run_error.cause.type = "TransformationError"
    /\ run_error.message = <<"ETL Pipeline failed: ", "Anomaly detection failed">>
    /\ results = NoResults
    /\ sinks = <<>>

\* C29: run called with an explicit start date prepares a context whose
\* start_date is that date without dashes, with start_hour, end_hour and
\* list_of_hour, and goes on to the extract phase.
ExplicitStartDateContext ==
    (start_date # NoDate /\ run_pc # "start") =>
        /\ context.start_date = RemoveDashes(start_date)
        /\ context.list_of_hour # <<>>
        /\ context.start_hour = context.list_of_hour[1]
        /\ run_pc = "extract" \/ phases # <<>>

SinkOrder == <<<<"csv", "anomalies">>, <<"csv", "full_data">>,
               <<"bq", "anomalies">>, <<"bq", "full_data">>>>

\* C30: load writes CSV anomalies, CSV full data, BigQuery anomalies,
\* BigQuery full data in that order; the four locations are returned only
\* when all four writes succeeded; when a write fails load raises and what
\* the earlier writes left stays in place.
LoadWritesInOrder ==
    /\ Len(sinks) <= Len(SinkOrder)
    /\ \A i \in DOMAIN sinks : <<sinks[i].sink, sinks[i].data>> = SinkOrder[i]
    /\ \A i, j \in DOMAIN sinks : i # j => sinks[i].location # sinks[j].location
    /\ results # NoResults =>
          /\ Len(sinks) = Len(SinkOrder)
          /\ run_pc = "returned"
          /\ results = [csv_path |-> sinks[1].location,
                        csv_full_data_path |-> sinks[2].location,
                        bq_table |-> sinks[3].location,
                        bq_table_full_data |-> sinks[4].location]
    /\ ("load" \in Range(phases) /\ Len(sinks) < Len(SinkOrder)) =>
          /\ run_pc = "raised"
          /\ results = NoResults
          /\ run_error.cause.type \in {"LoadError", "ExtractionError"}
    /\ ("load" \in Range(phases) /\ Len(sinks) = Len(SinkOrder)) =>
          \/ results # NoResults
          \/ run_pc = "raised"

\* the BigQuery write of the anomalies failed: both files are in place and
\* run raised
LoadWritesInOrderWitness ==
    /\ run_pc = "raised"
    /\ run_error.cause = Exception("LoadError", "BigQuery loading failed")
    /\ Len(sinks) = 2
    /\ sinks[1].sink = "csv" /\ sinks[1].data = "anomalies"
    /\ sinks[2].sink = "csv" /\ sinks[2].data = "full_data"
    /\ results = NoResults

(***************************************************************************)
(* ClientFetcher.get_active_clients and _filter_existing_clients           *)
(***************************************************************************)
MaxClients == 2
MaxHours == 2

\* client ids as _fetch_client_list returns them: upper case, repeats allowed
ClientIds == {"A", "B"}
ClientLists == UNION {[1..n -> ClientIds] : n \in 0..MaxClients}

\* the hour lists of a context: the last n hours up to 00h of a day
HourLists == {generate_list_of_hour(<<20250610, 0>>, n) : n \in 0..MaxHours}

\* bq_client.get_table(table_id): returns, raises NotFound, raises another
\* exception
LookupOutcomes == {"ok", "NotFound", "error"}

\* what get_table does at the lookup for the i-th client and j-th hour
TableOracles(clients, hours) ==
    [DOMAIN clients -> [DOMAIN hours -> LookupOutcomes]]

\* a lookup counts as found unless it raised NotFound
LookupFoundUnlessNotFound(outcome) == outcome # "NotFound"

\* the try body completed: neither except clause ran
LookupFound(outcome) == outcome = "ok"

\* the inner loop over list_of_hour for one client, from hour j on: the
\* hours looked up and the flag all_tables_found
RECURSIVE CheckTables(_, _, _, _)
CheckTables(outcomes, n, j, calls) ==
    IF j > n
    THEN [all_tables_found |-> TRUE, calls |-> calls]
    ELSE IF LookupFound(outcomes[j])
         THEN CheckTables(outcomes, n, j + 1, Append(calls, j))
         ELSE \* all_tables_found = False; break
              [all_tables_found |-> FALSE, calls |-> Append(calls, j)]

\* the outer loop over client_list, from client i on
RECURSIVE FilterLoop(_, _, _, _, _, _)
FilterLoop(clients, hours, oracle, i, active, log) ==
    IF i > Len(clients)
    THEN [active_clients |-> active, lookups |-> log]
    ELSE LET r == CheckTables(oracle[i], Len(hours), 1, <<>>)
             made == [k \in DOMAIN r.calls |->
                        [client |-> i, hour |-> r.calls[k],
                         table_id |-> <<clients[i], hours[r.calls[k]]>>]]
         IN  FilterLoop(clients, hours, oracle, i + 1,
                        IF r.all_tables_found /\ hours # <<>>
                        THEN Append(active, clients[i]) ELSE active,
                        log \o made)

filter_existing_clients(clients, hours, oracle) ==
    FilterLoop(clients, hours, oracle, 1, <<>>, <<>>)

InitFetch ==
    /\ client_list \in ClientLists
    /\ date_suffixes \in HourLists
    /\ tables \in TableOracles(client_list, date_suffixes)
    /\ active_clients = <<>>
    /\ lookups = <<>>
    /\ fetch_pc = "ready"
    /\ CalIdle
    /\ DetIdle
    /\ HourIdle
    /\ EtlIdle

\* ClientFetcher._filter_existing_clients(client_list, list_of_hour)
FilterExistingClients ==
    /\ fetch_pc = "ready"
    /\ \E bq_client_ok \in BOOLEAN :
        IF bq_client_ok
        THEN LET r == filter_existing_clients(client_list, date_suffixes, tables)
             IN  /\ active_clients' = r.active_clients
                 /\ lookups' = r.lookups
                 /\ fetch_pc' = "filtered"
        ELSE \* BigQueryClient(self.config) raised: ExtractionError
             /\ fetch_pc' = "raised"
             /\ UNCHANGED <<active_clients, lookups>>
    /\ UNCHANGED <<client_list, date_suffixes, tables, cal_vars, det_vars,
                   pipe_vars, run_vars, hour_vars, etl_vars>>

\* ClientFetcher.get_active_clients(list_of_hour=...), after the client list
\* was fetched
GetActiveClients ==
    /\ fetch_pc = "ready"
    /\ IF date_suffixes # <<>>
       THEN \E bq_client_ok \in BOOLEAN :
            IF bq_client_ok
            THEN LET r == filter_existing_clients(client_list, date_suffixes,
                                                  tables)
                 IN  /\ active_clients' = r.active_clients
                     /\ lookups' = r.lookups
                     /\ fetch_pc' = "active"
            ELSE /\ fetch_pc' = "raised"
                 /\ UNCHANGED <<active_clients, lookups>>
       ELSE \* no date filter: all clients
            /\ active_clients' = client_list
            /\ lookups' = <<>>
            /\ fetch_pc' = "active"
    /\ UNCHANGED <<client_list, date_suffixes, tables, cal_vars, det_vars,
                   pipe_vars, run_vars, hour_vars, etl_vars>>

NextFetch == FilterExistingClients \/ GetActiveClients

SpecFetch == InitFetch /\ [][NextFetch]_vars

\* the positions of the clients whose every lookup succeeds
KeptPositions ==
    {i \in DOMAIN client_list :
        \A j \in DOMAIN date_suffixes : tables[i][j] = "ok"}

\* the lookup for client i and hour j is due: every earlier hour of that
\* client was found
LookupDue(i, j) == \A h \in 1..(j - 1) : tables[i][h] = "ok"

\* C28: with a non-empty hour list, a client is kept iff the lookup succeeds
\* for every hour; a NotFound or other error excludes that client only and
\* ends the lookups for that client, the remaining clients are still
\* filtered; kept clients keep their input order and multiplicity.
FilterKeepsClientsWithAllTables ==
    (fetch_pc \in {"filtered", "active"} /\ date_suffixes # <<>>) =>
        /\ Len(active_clients) = Cardinality(KeptPositions)
        /\ \A k \in DOMAIN active_clients :
              \E i \in KeptPositions :
                 /\ Cardinality({p \in KeptPositions : p <= i}) = k
                 /\ active_clients[k] = client_list[i]
        /\ \A i \in DOMAIN client_list : \A j \in DOMAIN date_suffixes :
              Cardinality({k \in DOMAIN lookups :
                              lookups[k].client = i /\ lookups[k].hour = j})
                 = IF LookupDue(i, j) THEN 1 ELSE 0
        /\ \A k \in DOMAIN lookups :
              lookups[k].table_id =
                 <<client_list[lookups[k].client], date_suffixes[lookups[k].hour]>>
        /\ \A k \in 1..(Len(lookups) - 1) :
              \/ lookups[k].client < lookups[k + 1].client
              \/ /\ lookups[k].client = lookups[k + 1].client
                 /\ lookups[k].hour < lookups[k + 1].hour

\* the first client's first lookup raised an unexpected error: it is dropped
\* after one lookup and the second client is still checked and kept
FilterKeepsClientsWithAllTablesWitness ==
    /\ fetch_pc = "filtered"
    /\ client_list = <<"A", "B">>
    /\ Len(date_suffixes) = 2
    /\ tables[1][1] = "error"
    /\ tables[2] = <<"ok", "ok">>
    /\ active_clients = <<"B">>
    /\ Len(lookups) = 3

====
